---- MODULE Spec2Model ----
(***************************************************************************)
(* A model of the NFT sale / social-sentiment correlation pipeline:        *)
(*   - twitter_scraper_apify.py : NFTTwitterScraper (dedup, time filter)   *)
(*   - sentiment_analyzer_advanced.py : SimpleNFTSentimentAnalyzer         *)
(*   - run_pipeline.py : NFTPipeline                                       *)
(*   - data_collector.py : collect_nft_data                                *)
(*   - twitter_scraper.py : NFTTwitterScraper (twikit searches)            *)
(*   - opensea_collector.py : OpenSeaCollector                             *)
(*                                                                         *)
(* Conventions.  A Python dict is a record.  None is the string NoneVal,   *)
(* an absent key the string Missing.  A float score is an integer number   *)
(* of tenths (0.7 is 7); a ratio is a record [num, den].                   *)
(***************************************************************************)
EXTENDS Integers, Sequences, FiniteSets, TLC

VARIABLES
    pc,             \* position of the operation under analysis
    tweets,         \* the `tweets` argument of the operation
    start_time,     \* _filter_tweets_by_time: start_time argument
    end_time,       \* _filter_tweets_by_time: end_time argument
    result,         \* the value the operation returned
    response_text,  \* what the scoring collaborator answered (analyzer)
    api_calls,      \* number of calls made to the scoring collaborator
    \* NFTPipeline.run (run_pipeline.py)
    nft_sales,      \* the sales returned by collect_opensea_data
    sale_index,     \* position of the loop over sales that is running
    all_tweets,     \* collect_twitter_data: the posts accumulated so far
    tweets_by_sale, \* analyze_sentiment: the groups, in insertion order
    sale_sentiment_results, \* analyze_sentiment: sale_key -> sentiment entry
    enhanced_sales, \* _merge_sentiment_data: the merged records
    attempted,      \* history: one record per loop iteration started
    \* collect_nft_data (data_collector.py)
    collections,    \* the collection slugs to process
    sales_per_collection,
    collection_index, \* i of `for i, collection_slug in enumerate(collections, 1)`
    sales,          \* the sales collect_nft_sales returned for the collection
    collector,      \* the NFTDataCollector: collected_data, metadata_data, counters
    delays,         \* history: the asyncio.sleep calls made, in order
    \* one call of a collector's search (twitter_scraper.py, twitter_scraper_apify.py)
    nft_sale,       \* the sale the search is made for (its keywords, names, window)
    max_tweets,     \* the max_tweets / limit argument
    is_logged_in,   \* NFTTwitterScraper.is_logged_in (twikit)
    searched,       \* history: the terms handed to the provider, in order
    error,          \* the exception that left the operation, NoError if none
    \* the sale-event source (opensea_collector.py)
    status_code,    \* history: HTTP status of the last answer of the source, 0 if none
    \* timestamp conversions (twitter_scraper*.py, data_collector.py)
    event_timestamp, \* the integer epoch of a sale event
    local_offset,   \* UTC offset of the zone the process runs in
    tweet_time,     \* the tweet time handed to _calculate_hours_before_sale
    sale_time,      \* the sale time handed to _calculate_hours_before_sale
    \* the wait for a provider run (twitter_scraper_apify.py, apify.py)
    run_status,     \* the status the last poll observed
    elapsed,        \* seconds since the wait began
    dataset         \* the items of the run's default dataset

opVars == <<tweets, start_time, end_time, result, response_text, api_calls>>

loopVars == <<sale_index, attempted>>

pipelineVars == <<nft_sales, all_tweets, tweets_by_sale,
                  sale_sentiment_results, enhanced_sales>>

collectorVars == <<collections, sales_per_collection, collection_index, sales,
                   collector, delays>>

searchVars == <<nft_sale, max_tweets, is_logged_in, searched, error>>

sourceVars == <<status_code>>

clockVars == <<event_timestamp, local_offset, tweet_time, sale_time>>

pollVars == <<run_status, elapsed, dataset>>

vars == <<pc, opVars, loopVars, pipelineVars, collectorVars, searchVars,
          sourceVars, clockVars, pollVars>>

NoneVal == "<None>"
Missing == "<missing>"

Min(a, b) == IF a <= b THEN a ELSE b

Range(s) == {s[i] : i \in 1..Len(s)}

(***************************************************************************)
(* Bounds of the model.                                                    *)
(***************************************************************************)
MaxTweets == 3      \* longest post sequence handed to an operation
MaxFilterTweets == 2 \* longest post sequence handed to the time filter
MaxTime == 2        \* wall-clock readings are 0..MaxTime

SeqsUpTo(S, n) == UNION {[1..k -> S] : k \in 0..n}

\* the keys of e extend those of d, none is overwritten
setdefault_all(d, e) ==
    [k \in DOMAIN d \cup DOMAIN e |-> IF k \in DOMAIN d THEN d[k] ELSE e[k]]

\* dict.update: the keys of e overwrite or extend those of d.
update(d, e) ==
    [k \in DOMAIN d \cup DOMAIN e |-> IF k \in DOMAIN e THEN e[k] ELSE d[k]]

NewCollector ==
    [collected_data |-> <<>>, metadata_data |-> <<>>,
     total_nfts |-> 0, processed_nfts |-> 0]

\* the record is stored, the counter is left alone
store_record_uncounted(c, record) ==
    [c EXCEPT !.metadata_data = Append(@, record),
              !.collected_data = Append(@, record)]

\* NFTDataCollector.collect_nft_data (data_collector.py 222-226): the
\* metadata and the record of the sale are appended, the counter advanced.
store_record(c, record) ==
    [c EXCEPT !.metadata_data = Append(@, record),
              !.collected_data = Append(@, record),
              !.processed_nfts = @ + 1]

\* The parts of the state a specification does not use stay as they start.
PipelineIdle ==
    /\ nft_sales = <<>>
    /\ sale_index = 0
    /\ all_tweets = <<>>
    /\ tweets_by_sale = <<>>
    /\ sale_sentiment_results = <<>>
    /\ enhanced_sales = <<>>
    /\ attempted = <<>>

CollectorIdle ==
    /\ collections = <<>>
    /\ sales_per_collection = 0
    /\ collection_index = 0
    /\ sales = <<>>
    /\ collector = NewCollector
    /\ delays = <<>>

NoError == "<no error>"
NoLimit == [is_none |-> TRUE, n |-> 0]

SearchIdle ==
    /\ nft_sale = <<>>
    /\ max_tweets = NoLimit
    /\ is_logged_in = FALSE
    /\ searched = <<>>
    /\ error = NoError

\* No request was made to the sale-event source.
NoStatus == 0

SourceIdle == status_code = NoStatus

ClockIdle ==
    /\ event_timestamp = 0
    /\ local_offset = 0
    /\ tweet_time = NoneVal
    /\ sale_time = NoneVal

\* No dataset: nothing to fetch.
NoDataset == [available |-> FALSE, items |-> <<>>]

PollIdle ==
    /\ run_status = NoneVal
    /\ elapsed = 0
    /\ dataset = NoDataset

(***************************************************************************)
(* Texts.  _remove_duplicate_tweets only looks at text[:100]; a text is    *)
(* modelled by its first 100 characters (head) and what follows (tail).    *)
(***************************************************************************)
Texts == [head : {"gm", "wagmi"}, tail : {"", "more"}]

text_prefix(text) == text.head

NoTime == [fmt |-> "empty", wall |-> 0, off |-> 0]

NoResponse == [kind |-> "none"]

DedupPosts == [id : {"", "A", "B"}, text : Texts, created_at : {NoTime}]

(***************************************************************************)
(* NFTTwitterScraper._remove_duplicate_tweets                              *)
(* (twitter_scraper_apify.py 346-364).                                     *)
(* acc = [seen_ids, seen_texts, unique_tweets]; one loop iteration.        *)
(***************************************************************************)
dedup_step_idtext(acc, tweet) ==
    LET tweet_id == tweet.id
        tweet_text == text_prefix(tweet.text)
    IN  IF tweet_id # "" /\ tweet_id \notin acc.seen_ids
               /\ tweet_text \notin acc.seen_texts
        THEN [seen_ids |-> acc.seen_ids \cup {tweet_id},
              seen_texts |-> acc.seen_texts \cup {tweet_text},
              unique_tweets |-> Append(acc.unique_tweets, tweet)]
        ELSE IF tweet_id = "" /\ tweet_text \notin acc.seen_texts
        THEN [acc EXCEPT !.seen_texts = @ \cup {tweet_text},
                         !.unique_tweets = Append(@, tweet)]
        ELSE acc

dedup_step_notext(acc, tweet) ==
    LET tweet_id == tweet.id
        tweet_text == text_prefix(tweet.text)
    IN  IF tweet_id # "" /\ tweet_id \notin acc.seen_ids
        THEN [seen_ids |-> acc.seen_ids \cup {tweet_id},
              seen_texts |-> acc.seen_texts,
              unique_tweets |-> Append(acc.unique_tweets, tweet)]
        ELSE IF tweet_id = "" /\ tweet_text \notin acc.seen_texts
        THEN [acc EXCEPT !.seen_texts = @ \cup {tweet_text},
                         !.unique_tweets = Append(@, tweet)]
        ELSE acc

dedup_step(acc, tweet) ==
    LET tweet_id == tweet.id
        tweet_text == text_prefix(tweet.text)
    IN  IF tweet_id # "" /\ tweet_id \notin acc.seen_ids
        THEN [seen_ids |-> acc.seen_ids \cup {tweet_id},
              seen_texts |-> acc.seen_texts \cup {tweet_text},
              unique_tweets |-> Append(acc.unique_tweets, tweet)]
        ELSE IF tweet_id = "" /\ tweet_text \notin acc.seen_texts
        THEN [acc EXCEPT !.seen_texts = @ \cup {tweet_text},
                         !.unique_tweets = Append(@, tweet)]
        ELSE acc

RECURSIVE dedup_loop(_, _)
dedup_loop(acc, rest) ==
    IF rest = <<>> THEN acc
    ELSE dedup_loop(dedup_step(acc, Head(rest)), Tail(rest))

remove_duplicate_tweets(ts) ==
    dedup_loop([seen_ids |-> {}, seen_texts |-> {}, unique_tweets |-> <<>>],
               ts).unique_tweets

(***************************************************************************)
(* Specification SpecDedup: _remove_duplicate_tweets applied to every      *)
(* post sequence of at most MaxTweets posts.                               *)
(***************************************************************************)
InitDedup ==
    /\ pc = "dedup"
    /\ tweets \in SeqsUpTo(DedupPosts, MaxTweets)
    /\ start_time = NoTime
    /\ end_time = NoTime
    /\ result = <<>>
    /\ response_text = NoResponse
    /\ api_calls = 0
    /\ PipelineIdle
    /\ CollectorIdle
    /\ SearchIdle
    /\ SourceIdle
    /\ ClockIdle
    /\ PollIdle

RemoveDuplicates ==
    /\ pc = "dedup"
    /\ result' = remove_duplicate_tweets(tweets)
    /\ pc' = "deduped"
    /\ UNCHANGED <<tweets, start_time, end_time, response_text, api_calls,
                   loopVars, pipelineVars, collectorVars, searchVars, sourceVars, clockVars, pollVars>>

NextDedup == RemoveDuplicates

SpecDedup == InitDedup /\ [][NextDedup]_vars

IdsOf(ts) == {ts[i].id : i \in 1..Len(ts)} \ {""}

FirstIndexOfId(ts, x) ==
    CHOOSE i \in 1..Len(ts) :
        ts[i].id = x /\ \A j \in 1..(i - 1) : ts[j].id # x

\* C1: among all posts of the input that share one non-empty identifier,
\* exactly one is in the output of _remove_duplicate_tweets, and it is the
\* first of them in input order.
C1_FirstPerIdKept ==
    pc = "deduped" =>
        \A x \in IdsOf(tweets) :
            /\ Cardinality({j \in 1..Len(result) : result[j].id = x}) = 1
            /\ \A j \in 1..Len(result) :
                   result[j].id = x => result[j] = tweets[FirstIndexOfId(tweets, x)]

\* C1 witness: an identifier occurs twice with different texts and the
\* output holds the first of the two posts only.
C1_Witness ==
    /\ pc = "deduped"
    /\ \E i, j \in 1..Len(tweets) :
          /\ i < j
          /\ tweets[i].id # ""
          /\ tweets[i].id = tweets[j].id
          /\ tweets[i].text # tweets[j].text
          /\ tweets[i] \in Range(result)
          /\ tweets[j] \notin Range(result)

KeptIdIndexes(ts) ==
    {i \in 1..Len(ts) : ts[i].id # "" /\ \A j \in 1..(i - 1) : ts[j].id # ts[i].id}

IdlessPrefixes(ts) ==
    {text_prefix(ts[i].text) : i \in {k \in 1..Len(ts) : ts[k].id = ""}}

FirstIdlessIndex(ts, p) ==
    CHOOSE i \in 1..Len(ts) :
        /\ ts[i].id = "" /\ text_prefix(ts[i].text) = p
        /\ \A j \in 1..(i - 1) : ~(ts[j].id = "" /\ text_prefix(ts[j].text) = p)

\* A prefix of an id-less post is shadowed when a retained post that has an
\* identifier and the same prefix comes before the first id-less post with it.
ShadowedPrefix(ts, p) ==
    \E k \in KeptIdIndexes(ts) :
        k < FirstIdlessIndex(ts, p) /\ text_prefix(ts[k].text) = p

\* C9 (as stated): the number of posts returned equals the number of distinct
\* identifiers plus the number of distinct 100-character prefixes among the
\* posts without identifier.
C9_CountIdsPlusPrefixes ==
    pc = "deduped" =>
        Len(result) = Cardinality(IdsOf(tweets)) + Cardinality(IdlessPrefixes(tweets))

\* C9 (amended): the number of posts returned equals the number of distinct
\* identifiers plus the number of distinct prefixes among the posts without
\* identifier that are not shadowed by an earlier retained identified post.
C9_CountIdsPlusUnshadowedPrefixes ==
    pc = "deduped" =>
        Len(result) = Cardinality(IdsOf(tweets))
            + Cardinality({p \in IdlessPrefixes(tweets) : ~ShadowedPrefix(tweets, p)})

\* C9 witness: an id-less post is dropped because a retained identified post
\* before it has the same prefix, so fewer posts are returned than there are
\* distinct identifiers and distinct id-less prefixes.
C9_Witness ==
    /\ pc = "deduped"
    /\ \E p \in IdlessPrefixes(tweets) : ShadowedPrefix(tweets, p)
    /\ Len(result) < Cardinality(IdsOf(tweets)) + Cardinality(IdlessPrefixes(tweets))

(***************************************************************************)
(* Timestamps.  A timestamp string is modelled by its format, its          *)
(* wall-clock reading and, when it carries one, its UTC offset:            *)
(*   twitter    'Tue Jun 10 18:54:23 +0000 2025'  (offset always +0000)    *)
(*   isoZ       '2025-06-10T18:54:23Z'                                     *)
(*   isoOffset  '2025-06-10T18:54:23+01:00'                                *)
(*   isoNaive   '2025-06-10T18:54:23'             (no zone)                *)
(*   bad        a string no format matches;   empty  ''                    *)
(***************************************************************************)
Timestamps ==
    [fmt : {"twitter", "isoZ", "isoNaive"}, wall : 0..MaxTime, off : {0}]
        \cup [fmt : {"isoOffset"}, wall : 0..MaxTime, off : {1}]
        \cup [fmt : {"bad", "empty"}, wall : {0}, off : {0}]

NoDatetime == [ok |-> FALSE, aware |-> FALSE, t |-> 0]

(***************************************************************************)
(* NFTTwitterScraper._parse_twitter_timestamp                              *)
(* (twitter_scraper_apify.py 60-81): a datetime, aware (t is the UTC       *)
(* instant) or naive (t is the wall-clock reading), or None.               *)
(***************************************************************************)
parse_twitter_timestamp(ts) ==
    CASE ts.fmt = "empty"     -> NoDatetime
      [] ts.fmt = "twitter"   -> [ok |-> TRUE, aware |-> TRUE, t |-> ts.wall - ts.off]
      [] ts.fmt = "isoZ"      -> [ok |-> TRUE, aware |-> TRUE, t |-> ts.wall - ts.off]
      [] ts.fmt = "isoOffset" -> [ok |-> TRUE, aware |-> TRUE, t |-> ts.wall - ts.off]
      [] ts.fmt = "isoNaive"  -> [ok |-> TRUE, aware |-> FALSE, t |-> ts.wall]
      [] OTHER                -> NoDatetime

\* datetime comparison: Python raises TypeError when exactly one side is aware.
compare_raises(a, b) == a.aware # b.aware

(***************************************************************************)
(* NFTTwitterScraper._filter_tweets_by_time                                *)
(* (twitter_scraper_apify.py 366-414).                                     *)
(* acc = [filtered_tweets, rejected_count, raised]; one loop iteration.    *)
(***************************************************************************)
filter_step(acc, tweet, start_dt, end_dt) ==
    LET tweet_time_str == tweet.created_at
        tweet_dt == parse_twitter_timestamp(tweet_time_str)
        reject == [acc EXCEPT !.rejected_count = @ + 1]
        raise == [acc EXCEPT !.raised = TRUE]
    IN  IF acc.raised THEN acc
        ELSE IF tweet_time_str.fmt = "empty" THEN reject
        ELSE IF ~tweet_dt.ok THEN reject
        ELSE IF compare_raises(start_dt, tweet_dt) THEN raise
        ELSE IF start_dt.t <= tweet_dt.t
        THEN IF compare_raises(tweet_dt, end_dt) THEN raise
             ELSE IF tweet_dt.t <= end_dt.t
             THEN [acc EXCEPT !.filtered_tweets = Append(@, tweet)]
             ELSE reject
        \* rejected: the first three rejections log `tweet_dt > end_dt`
        ELSE IF acc.rejected_count + 1 <= 3 /\ compare_raises(tweet_dt, end_dt)
        THEN raise
        ELSE reject

RECURSIVE filter_loop(_, _, _, _)
filter_loop(acc, rest, start_dt, end_dt) ==
    IF rest = <<>> THEN acc
    ELSE filter_loop(filter_step(acc, Head(rest), start_dt, end_dt),
                     Tail(rest), start_dt, end_dt)

filter_tweets_by_time(ts, start, end) ==
    LET start_dt == parse_twitter_timestamp(start)
        end_dt == parse_twitter_timestamp(end)
        acc == filter_loop([filtered_tweets |-> <<>>, rejected_count |-> 0,
                            raised |-> FALSE], ts, start_dt, end_dt)
    IN  IF ~start_dt.ok \/ ~end_dt.ok THEN ts     \* could not parse the window
        ELSE IF acc.raised THEN ts                \* except Exception: return tweets
        ELSE acc.filtered_tweets

(***************************************************************************)
(* Specification SpecTimeFilter: _filter_tweets_by_time applied to every   *)
(* window and every sequence of at most MaxFilterTweets posts.             *)
(***************************************************************************)
TimedPosts == [id : {"A"}, text : {[head |-> "gm", tail |-> ""]},
               created_at : Timestamps]

InitTimeFilter ==
    /\ pc = "filter"
    /\ tweets \in SeqsUpTo(TimedPosts, MaxFilterTweets)
    /\ start_time \in Timestamps
    /\ end_time \in Timestamps
    /\ result = <<>>
    /\ response_text = NoResponse
    /\ api_calls = 0
    /\ PipelineIdle
    /\ CollectorIdle
    /\ SearchIdle
    /\ SourceIdle
    /\ ClockIdle
    /\ PollIdle

FilterByTime ==
    /\ pc = "filter"
    /\ result' = filter_tweets_by_time(tweets, start_time, end_time)
    /\ pc' = "filtered"
    /\ UNCHANGED <<tweets, start_time, end_time, response_text, api_calls,
                   loopVars, pipelineVars, collectorVars, searchVars, sourceVars, clockVars, pollVars>>

NextTimeFilter == FilterByTime

SpecTimeFilter == InitTimeFilter /\ [][NextTimeFilter]_vars

\* The canonical UTC instant of a timestamp (spec 4.1: a value lacking a
\* timezone is assumed UTC).
HasInstant(ts) == ts.fmt \in {"twitter", "isoZ", "isoOffset", "isoNaive"}

CanonicalInstant(ts) == IF ts.fmt = "isoNaive" THEN ts.wall ELSE ts.wall - ts.off

\* C2: for every window [start, end] and every post with canonical created-at
\* instant t, the post is in the output of _filter_tweets_by_time if and only
\* if start <= t <= end, whatever the formats of the bounds and of the posts.
C2_KeptIffInWindow ==
    (pc = "filtered" /\ HasInstant(start_time) /\ HasInstant(end_time)) =>
        \A i \in 1..Len(tweets) :
            HasInstant(tweets[i].created_at) =>
                (tweets[i] \in Range(result)
                    <=> /\ CanonicalInstant(start_time) <= CanonicalInstant(tweets[i].created_at)
                        /\ CanonicalInstant(tweets[i].created_at) <= CanonicalInstant(end_time))

(***************************************************************************)
(* SimpleNFTSentimentAnalyzer (sentiment_analyzer_advanced.py).            *)
(*                                                                         *)
(* A post text is modelled by its length, the length of text.lower() and   *)
(* the set of list words it contains; the word lists are samples of the    *)
(* analyzer's lists.                                                       *)
(***************************************************************************)
MaxAnalyzed == 2    \* longest post sequence handed to the analyzer
MaxLabels == 2      \* longest per-post label list in a response

MinTextLen == 20
nft_sentiment_keywords == {"bullish", "dump", "scam"}
exclude_patterns == {"giveaway"}
positive_keywords == {"bullish"}
negative_keywords == {"dump"}

AnalyzerTexts ==
    { [len |-> 5,  lower_len |-> 5,  words |-> {"bullish"}],    \* too short
      \* 19 characters, one of them U+0130, whose lower case is two characters
      [len |-> 19, lower_len |-> 20, words |-> {"bullish"}],
      [len |-> 40, lower_len |-> 40, words |-> {"giveaway", "bullish"}],  \* promotional
      [len |-> 40, lower_len |-> 40, words |-> {"bullish"}],
      [len |-> 40, lower_len |-> 40, words |-> {"dump"}],
      [len |-> 40, lower_len |-> 40, words |-> {"hello"}] }     \* no sentiment keyword

AnalyzerPosts == [author_id : {"", "u1", "u2"}, text : AnalyzerTexts]

(***************************************************************************)
(* What the scoring collaborator can answer.                               *)
(*   failed     the HTTP call raised: _get_sentiment_from_claude gives ''  *)
(*   text       free text that is no JSON; marker is the number after a    *)
(*              'SCORE:' label in it (has_marker) if there is one          *)
(*   nonobject  JSON that is no object (a list, a number), or no string    *)
(*   json       a JSON object; overall is its 'overall_sentiment'          *)
(*              (tag num: a number or numeric string of v tenths; missing; *)
(*              text: a non-numeric string; null), labels its 'tweets'     *)
(*              list of 'sentiment' values (given = FALSE: no 'tweets')    *)
(***************************************************************************)
Scores == {-15, -5, 0, 7, 15}
Labels == {"positive", "negative", "neutral"}

Overalls ==
    [tag : {"num"}, v : Scores] \cup [tag : {"missing", "text", "null"}, v : {0}]

LabelLists ==
    [given : {TRUE}, list : SeqsUpTo(Labels, MaxLabels)]
        \cup [given : {FALSE}, list : {<<>>}]

NoOverall == [tag |-> "missing", v |-> 0]
NoLabels == [given |-> FALSE, list |-> <<>>]

Responses ==
    [kind : {"json"}, overall : Overalls, labels : LabelLists,
        has_marker : {FALSE}, marker : {0}]
    \cup [kind : {"failed", "nonobject"}, overall : {NoOverall}, labels : {NoLabels},
        has_marker : {FALSE}, marker : {0}]
    \cup [kind : {"text"}, overall : {NoOverall}, labels : {NoLabels},
        has_marker : {FALSE}, marker : {0}]
    \cup [kind : {"text"}, overall : {NoOverall}, labels : {NoLabels},
        has_marker : {TRUE}, marker : {7}]

Ratio(n, d) == [num |-> n, den |-> d]

(***************************************************************************)
(* _filter_relevant_tweets (136-191).                                      *)
(* acc = [relevant_tweets, seen_users]; one loop iteration.                *)
(***************************************************************************)
relevant_step(acc, tweet) ==
    LET text == tweet.text          \* tweet.get('text', '').lower()
        user_id == tweet.author_id
    IN  IF user_id = "" THEN acc
        ELSE IF text.lower_len < MinTextLen THEN acc
        ELSE IF text.words \cap exclude_patterns # {} THEN acc
        ELSE IF user_id \in acc.seen_users THEN acc
        ELSE IF text.words \cap nft_sentiment_keywords # {}
        THEN [relevant_tweets |-> Append(acc.relevant_tweets, tweet),
              seen_users |-> acc.seen_users \cup {user_id}]
        ELSE acc

RECURSIVE relevant_loop(_, _)
relevant_loop(acc, rest) ==
    IF rest = <<>> THEN acc
    ELSE relevant_loop(relevant_step(acc, Head(rest)), Tail(rest))

filter_relevant_tweets(ts) ==
    relevant_loop([relevant_tweets |-> <<>>, seen_users |-> {}], ts).relevant_tweets

(***************************************************************************)
(* _empty_sentiment_result (449-465).                                      *)
(***************************************************************************)
empty_sentiment_result ==
    [avg_sentiment |-> 0, sentiment_std |-> 0,
     sentiment_confidence |-> Ratio(0, 1), consensus_quality |-> 0,
     positive_tweets |-> 0, negative_tweets |-> 0, neutral_tweets |-> 0,
     sentiment_range_min |-> 0, sentiment_range_max |-> 0,
     analyzed_tweet_count |-> 0, unique_users |-> 0,
     consensus_model_count |-> 0, consensus_iterations |-> 0]

(***************************************************************************)
(* _get_sentiment_from_claude (327-356): the response text; any failure    *)
(* of the call is caught and gives the empty string.                       *)
(***************************************************************************)
IsEmptyText(r) == r.kind = "failed"

Abs(x) == IF x < 0 THEN -x ELSE x

CountAgree(list, score) ==
    Cardinality({i \in 1..Len(list) :
        \/ list[i] = "positive" /\ score > 0
        \/ list[i] = "negative" /\ score < 0
        \/ list[i] = "neutral" /\ Abs(score) < 2})

(***************************************************************************)
(* _parse_sentiment_from_response (358-391): (score, confidence), or an    *)
(* exception the function does not catch (raised).                         *)
(***************************************************************************)
parse_sentiment_from_response(r) ==
    LET fallback == [raised |-> FALSE, score |-> 0, confidence |-> Ratio(1, 2)]
        raise == [raised |-> TRUE, score |-> 0, confidence |-> Ratio(0, 1)]
    IN  CASE r.kind \in {"failed", "text"} -> fallback   \* json.JSONDecodeError
          [] r.kind = "nonobject" -> raise               \* AttributeError
          [] OTHER ->
                IF r.overall.tag = "text" THEN fallback  \* float(): ValueError
                ELSE IF r.overall.tag = "null" THEN raise \* float(None): TypeError
                ELSE LET sentiment_score ==
                             IF r.overall.tag = "missing" THEN 0 ELSE r.overall.v
                         tweet_sentiments == r.labels.list
                     IN  IF tweet_sentiments = <<>> THEN fallback
                         ELSE [raised |-> FALSE, score |-> sentiment_score,
                               confidence |->
                                   Ratio(CountAgree(tweet_sentiments, sentiment_score),
                                         Len(tweet_sentiments))]

CountLabel(list, l) == Cardinality({i \in 1..Len(list) : list[i] = l})

(***************************************************************************)
(* _fallback_categorize_tweets (425-447).                                  *)
(***************************************************************************)
fallback_categorize_tweets(tweet_texts) ==
    LET pos_matches(t) == Cardinality(t.words \cap positive_keywords)
        neg_matches(t) == Cardinality(t.words \cap negative_keywords)
        idx == 1..Len(tweet_texts)
        p == Cardinality({i \in idx : pos_matches(tweet_texts[i]) > neg_matches(tweet_texts[i])})
        n == Cardinality({i \in idx : neg_matches(tweet_texts[i]) > pos_matches(tweet_texts[i])})
    IN  [positive |-> p, negative |-> n, neutral |-> Len(tweet_texts) - p - n]

(***************************************************************************)
(* _categorize_tweets_by_keywords (393-423).                               *)
(***************************************************************************)
categorize_tweets_by_keywords(tweet_texts, r) ==
    IF IsEmptyText(r) THEN fallback_categorize_tweets(tweet_texts)
    ELSE IF r.kind = "text" THEN fallback_categorize_tweets(tweet_texts)
    ELSE LET list == r.labels.list
         IN  [positive |-> CountLabel(list, "positive"),
              negative |-> CountLabel(list, "negative"),
              neutral |-> Len(list) - CountLabel(list, "positive")
                                    - CountLabel(list, "negative")]

(***************************************************************************)
(* analyze_tweets_sentiment (193-263): [result, calls], calls being the    *)
(* number of calls made to the collaborator, whose answer is r.            *)
(***************************************************************************)
analyze_tweets_sentiment_unguarded(ts, r) ==
    LET filtered_tweets == filter_relevant_tweets(ts)
        tweet_texts == SelectSeq([i \in 1..Len(filtered_tweets) |-> filtered_tweets[i].text],
                                 LAMBDA t : t.words # {})
        parsed == parse_sentiment_from_response(r)
        counts == categorize_tweets_by_keywords(tweet_texts, r)
    IN  IF ts = <<>> THEN [result |-> empty_sentiment_result, calls |-> 0]
        ELSE IF parsed.raised THEN [result |-> empty_sentiment_result, calls |-> 1]
        ELSE [result |->
                 [avg_sentiment |-> parsed.score, sentiment_std |-> 0,
                  sentiment_confidence |-> parsed.confidence, consensus_quality |-> 9,
                  positive_tweets |-> counts.positive,
                  negative_tweets |-> counts.negative,
                  neutral_tweets |-> counts.neutral,
                  sentiment_range_min |-> parsed.score,
                  sentiment_range_max |-> parsed.score,
                  analyzed_tweet_count |-> Len(tweet_texts),
                  unique_users |->
                      Cardinality({filtered_tweets[i].author_id : i \in 1..Len(filtered_tweets)}),
                  consensus_model_count |-> 1, consensus_iterations |-> 1],
              calls |-> 1]

analyze_tweets_sentiment(ts, r) ==
    LET filtered_tweets == filter_relevant_tweets(ts)
        tweet_texts == SelectSeq([i \in 1..Len(filtered_tweets) |-> filtered_tweets[i].text],
                                 LAMBDA t : t.words # {})
        parsed == parse_sentiment_from_response(r)
        counts == categorize_tweets_by_keywords(tweet_texts, r)
    IN  IF ts = <<>> THEN [result |-> empty_sentiment_result, calls |-> 0]
        ELSE IF filtered_tweets = <<>> THEN [result |-> empty_sentiment_result, calls |-> 0]
        ELSE IF tweet_texts = <<>> THEN [result |-> empty_sentiment_result, calls |-> 0]
        ELSE IF parsed.raised THEN [result |-> empty_sentiment_result, calls |-> 1]
        ELSE [result |->
                 [avg_sentiment |-> parsed.score, sentiment_std |-> 0,
                  sentiment_confidence |-> parsed.confidence, consensus_quality |-> 9,
                  positive_tweets |-> counts.positive,
                  negative_tweets |-> counts.negative,
                  neutral_tweets |-> counts.neutral,
                  sentiment_range_min |-> parsed.score,
                  sentiment_range_max |-> parsed.score,
                  analyzed_tweet_count |-> Len(tweet_texts),
                  unique_users |->
                      Cardinality({filtered_tweets[i].author_id : i \in 1..Len(filtered_tweets)}),
                  consensus_model_count |-> 1, consensus_iterations |-> 1],
              calls |-> 1]

(***************************************************************************)
(* Specification SpecAnalyzer: analyze_tweets_sentiment applied to every   *)
(* sequence of at most MaxAnalyzed posts, the collaborator answering with  *)
(* any response.                                                           *)
(***************************************************************************)
InitAnalyzer ==
    /\ pc = "analyze"
    /\ tweets \in SeqsUpTo(AnalyzerPosts, MaxAnalyzed)
    /\ start_time = NoTime
    /\ end_time = NoTime
    /\ result = empty_sentiment_result
    /\ response_text = NoResponse
    /\ api_calls = 0
    /\ PipelineIdle
    /\ CollectorIdle
    /\ SearchIdle
    /\ SourceIdle
    /\ ClockIdle
    /\ PollIdle

Analyze ==
    /\ pc = "analyze"
    /\ \E r \in Responses :
          LET out == analyze_tweets_sentiment(tweets, r)
          IN  /\ result' = out.result
              /\ api_calls' = api_calls + out.calls
              /\ response_text' = IF out.calls > 0 THEN r ELSE NoResponse
    /\ pc' = "analyzed"
    /\ UNCHANGED <<tweets, start_time, end_time, loopVars, pipelineVars, collectorVars, searchVars, sourceVars, clockVars, pollVars>>

NextAnalyzer == Analyze

SpecAnalyzer == InitAnalyzer /\ [][NextAnalyzer]_vars

AllSentimentZero(res) ==
    /\ res.avg_sentiment = 0
    /\ res.sentiment_std = 0
    /\ res.sentiment_confidence.num = 0
    /\ res.consensus_quality = 0
    /\ res.positive_tweets = 0
    /\ res.negative_tweets = 0
    /\ res.neutral_tweets = 0
    /\ res.sentiment_range_min = 0
    /\ res.sentiment_range_max = 0

AllNumericZero(res) ==
    /\ AllSentimentZero(res)
    /\ res.analyzed_tweet_count = 0
    /\ res.unique_users = 0
    /\ res.consensus_model_count = 0
    /\ res.consensus_iterations = 0

\* C3: whatever the collaborator answered, avg_sentiment, sentiment_range_min
\* and sentiment_range_max of the result lie in [-1.0, 1.0] (tenths: -10..10).
C3_ScoreClamped ==
    pc = "analyzed" =>
        /\ result.avg_sentiment \in -10..10
        /\ result.sentiment_range_min \in -10..10
        /\ result.sentiment_range_max \in -10..10

\* C4: for an empty post sequence, or posts that filtering removes entirely,
\* the result has analyzed_tweet_count = 0 and every other numeric field zero,
\* and the scoring collaborator was not called.
C4_EmptyInputZeroResult ==
    (pc = "analyzed" /\ filter_relevant_tweets(tweets) = <<>>) =>
        /\ AllNumericZero(result)
        /\ api_calls = 0

\* C4 witness: a non-empty post sequence was removed entirely by filtering
\* and the all-zero result was returned without a call.
C4_Witness ==
    /\ pc = "analyzed"
    /\ tweets # <<>>
    /\ filter_relevant_tweets(tweets) = <<>>
    /\ AllNumericZero(result)
    /\ api_calls = 0

\* C7: whenever the call to the scoring collaborator failed or its response is
\* unusable (no JSON object), the result has analyzed_tweet_count = 0 and all
\* sentiment fields zero.
C7_NoFabricatedSentiment ==
    (pc = "analyzed" /\ response_text.kind \in {"failed", "text", "nonobject"}) =>
        /\ result.analyzed_tweet_count = 0
        /\ AllSentimentZero(result)

\* C8: in every non-empty result, positive_tweets + negative_tweets +
\* neutral_tweets equals analyzed_tweet_count.
C8_LabelCountsSumToAnalyzed ==
    (pc = "analyzed" /\ result.analyzed_tweet_count > 0) =>
        result.positive_tweets + result.negative_tweets + result.neutral_tweets
            = result.analyzed_tweet_count

\* C10: a response that is no JSON record but carries a labelled numeric
\* marker (SCORE: 0.7) yields that number as the score (the pattern-parse
\* tier of the fallback chain).
C10_PatternParseTier ==
    (pc = "analyzed" /\ response_text.kind = "text" /\ response_text.has_marker) =>
        result.avg_sentiment = response_text.marker


(***************************************************************************)
(* NFTPipeline (run_pipeline.py).                                          *)
(*                                                                         *)
(* A sale is the record OpenSeaCollector._extract_sale_data builds         *)
(* (opensea_collector.py 284-386): every key is present, nft_name is the   *)
(* NFT's 'name' (null or empty for an unnamed NFT), the sentiment fields   *)
(* are zero.                                                               *)
(* Two sales of a collection can carry the same name and the same          *)
(* timestamp (several NFTs bought in one transaction).                     *)
(***************************************************************************)
MaxSales == 2       \* config['opensea_limit']: most sales of one run

ZeroSentimentFields ==
    [tweet_count |-> 0, avg_sentiment |-> 0, sentiment_confidence |-> Ratio(0, 1),
     consensus_quality |-> 0, positive_tweets |-> 0, negative_tweets |-> 0,
     neutral_tweets |-> 0, sentiment_range_min |-> 0, sentiment_range_max |-> 0]

PipelineSales ==
    {update([collection_name |-> "bayc", nft_name |-> n, token_id |-> t,
             sale_timestamp |-> "2025-06-10T12:00:00", sale_price_eth |-> 15],
            ZeroSentimentFields) : n \in {"Ape", "", NoneVal}, t \in {"1", "2"}}

\* d.get(key, default) for the value v of d[key], Missing when d lacks the key.
dict_get(v, default) == IF v = Missing THEN default ELSE v

\* `v or alt`: None and the empty string are falsy.
py_or(v, alt) == IF v \in {NoneVal, Missing, ""} THEN alt ELSE v

\* format(v) inside an f-string: None prints as 'None'.
py_str(v) == IF v = NoneVal THEN "None" ELSE v

(***************************************************************************)
(* _prepare_sale_for_twitter (135-153): the fields the scraper copies onto *)
(* the posts.                                                              *)
(***************************************************************************)
prepare_sale_for_twitter(sale) ==
    [nft_name |-> py_or(sale.nft_name, "NFT #" \o py_str(dict_get(sale.token_id, "Unknown"))),
     collection_name |-> dict_get(sale.collection_name, "Unknown"),
     sale_price_eth |-> sale.sale_price_eth,
     sale_timestamp |-> dict_get(sale.sale_timestamp, NoneVal)]

(***************************************************************************)
(* search_tweets_for_nft (twitter_scraper_apify.py 83-188), the sale       *)
(* context put on each post found: _format_tweet_data sets nft_name and    *)
(* collection_name (339-340), the update at 127-134 the sale fields.       *)
(* sale_no is history: the position of the sale the search was made for.   *)
(***************************************************************************)
format_tweet(post, sale_data, sale_no) ==
    [id |-> post.id, author_id |-> post.author_id, text |-> post.text,
     nft_name |-> dict_get(sale_data.nft_name, ""),
     collection_name |-> dict_get(sale_data.collection_name, ""),
     sale_price_eth |-> sale_data.sale_price_eth,
     sale_timestamp |-> dict_get(sale_data.sale_timestamp, ""),
     sale_no |-> sale_no]

\* What one search can return: nothing, one relevant post, or a relevant
\* post and one too short to be analysed.
FoundPosts ==
    { <<>>,
      <<[id |-> "A", author_id |-> "u1", text |-> [len |-> 40, lower_len |-> 40, words |-> {"bullish"}]]>>,
      <<[id |-> "A", author_id |-> "u1", text |-> [len |-> 40, lower_len |-> 40, words |-> {"bullish"}]],
        [id |-> "B", author_id |-> "u2", text |-> [len |-> 5, lower_len |-> 5, words |-> {"dump"}]]>> }

\* analyze_sentiment 166-169: the key of the sale a post belongs to.
sale_key_of_tweet(tweet) ==
    py_str(dict_get(tweet.collection_name, "Unknown")) \o "|"
        \o py_str(dict_get(tweet.nft_name, "Unknown")) \o "|"
        \o py_str(dict_get(tweet.sale_timestamp, "Unknown"))

\* The same key with the token id left out of the generated name.
sale_key_of_sale_notoken(sale) ==
    py_str(dict_get(sale.collection_name, "Unknown")) \o "|"
        \o py_str(py_or(sale.nft_name, "NFT #")) \o "|"
        \o py_str(dict_get(sale.sale_timestamp, "Unknown"))

\* _merge_sentiment_data 254-257: the key of a sale.
sale_key_of_sale(sale) ==
    py_str(dict_get(sale.collection_name, "Unknown")) \o "|"
        \o py_str(py_or(sale.nft_name, "NFT #" \o py_str(dict_get(sale.token_id, "Unknown")))) \o "|"
        \o py_str(dict_get(sale.sale_timestamp, "Unknown"))

(***************************************************************************)
(* analyze_sentiment 164-180: the posts grouped by sale key, the groups in *)
(* the order their first post arrived.                                     *)
(***************************************************************************)
group_step(groups, tweet) ==
    LET sale_key == sale_key_of_tweet(tweet)
    IN  IF \E g \in 1..Len(groups) : groups[g].sale_key = sale_key
        THEN [g \in 1..Len(groups) |->
                 IF groups[g].sale_key = sale_key
                 THEN [groups[g] EXCEPT !.tweets = Append(@, tweet)]
                 ELSE groups[g]]
        ELSE Append(groups,
                 [sale_key |-> sale_key, tweets |-> <<tweet>>,
                  collection_name |-> dict_get(tweet.collection_name, "Unknown"),
                  nft_name |-> dict_get(tweet.nft_name, "Unknown"),
                  sale_timestamp |-> dict_get(tweet.sale_timestamp, "Unknown"),
                  sale_price_eth |-> tweet.sale_price_eth])

RECURSIVE group_tweets(_, _)
group_tweets(groups, rest) ==
    IF rest = <<>> THEN groups
    ELSE group_tweets(group_step(groups, Head(rest)), Tail(rest))

\* analyze_sentiment 194-208: the entry stored for a group.
sentiment_entry(sale_data, sentiment_metrics) ==
    [collection_name |-> sale_data.collection_name,
     nft_name |-> sale_data.nft_name,
     sale_timestamp |-> sale_data.sale_timestamp,
     sale_price_eth |-> sale_data.sale_price_eth,
     tweet_count |-> Len(sale_data.tweets),
     avg_sentiment |-> sentiment_metrics.avg_sentiment,
     sentiment_confidence |-> sentiment_metrics.sentiment_confidence,
     consensus_quality |-> sentiment_metrics.consensus_quality,
     positive_tweets |-> sentiment_metrics.positive_tweets,
     negative_tweets |-> sentiment_metrics.negative_tweets,
     neutral_tweets |-> sentiment_metrics.neutral_tweets,
     sentiment_range_min |-> sentiment_metrics.sentiment_range_min,
     sentiment_range_max |-> sentiment_metrics.sentiment_range_max]

\* The sentiment fields _merge_sentiment_data copies from an entry (263-273).
merged_fields(sentiment_data) ==
    [k \in DOMAIN ZeroSentimentFields |-> sentiment_data[k]]

(***************************************************************************)
(* _merge_sentiment_data (246-290).                                        *)
(***************************************************************************)
merge_sentiment_data(sales_in, sentiment_results) ==
    IF DOMAIN sentiment_results = {} THEN sales_in
    ELSE [i \in 1..Len(sales_in) |->
             LET sale_key == sale_key_of_sale(sales_in[i])
             IN  IF sale_key \in DOMAIN sentiment_results
                 THEN update(sales_in[i], merged_fields(sentiment_results[sale_key]))
                 ELSE update(sales_in[i], ZeroSentimentFields)]


(***************************************************************************)
(* A loop over events whose body is a try/except that handles every        *)
(* Exception (collect_twitter_data 112-130; likewise analyze_sentiment     *)
(* 186-214 and collect_nft_data of data_collector.py 430-439): where the   *)
(* run stands after iteration i of n, whether or not the body raised.      *)
(***************************************************************************)
after_iteration_propagating(raised, i, n, loop_pc, next_pc) ==
    IF raised THEN [pc |-> "failed", index |-> i]
    ELSE IF i < n THEN [pc |-> loop_pc, index |-> i + 1]
    ELSE [pc |-> next_pc, index |-> 0]

after_iteration(raised, i, n, loop_pc, next_pc) ==
    IF i < n THEN [pc |-> loop_pc, index |-> i + 1]
    ELSE [pc |-> next_pc, index |-> 0]

Iteration(phase, collection, event, of, raised) ==
    [phase |-> phase, collection |-> collection, event |-> event,
     of |-> of, raised |-> raised]

\* The HTTP status codes the sale-event source answers with: success,
\* authentication failure, another failure.
StatusCodes == {200, 403, 500}

\* OpenSeaCollector.get_collection_events (50-87): the events of the answer,
\* or a ValueError whose message alone tells a 403 from any other failure.
get_collection_events(code, asset_events) ==
    IF code = 200
    THEN [raised |-> FALSE, exception |-> NoError, message |-> "",
          asset_events |-> asset_events]
    ELSE [raised |-> TRUE, exception |-> "ValueError",
          message |-> IF code = 403 THEN "OpenSea API authentication failed"
                      ELSE "OpenSea API error",
          asset_events |-> <<>>]

\* NFTDataCollector.collect_nft_sales (56-68): every exception gives [].
collect_nft_sales(events_data) ==
    IF events_data.raised THEN <<>> ELSE events_data.asset_events

\* NFTPipeline.collect_opensea_data (80-105): collect_sample_data lets the
\* error of get_collection_events through, and every exception gives [].
collect_opensea_data(events_data, opensea_limit) ==
    IF events_data.raised THEN <<>>
    ELSE SubSeq(events_data.asset_events, 1,
                Min(Len(events_data.asset_events), opensea_limit))

\* What the collaborator answers during a pipeline run.
PipelineResponses ==
    { [kind |-> "json", overall |-> [tag |-> "num", v |-> 7],
       labels |-> [given |-> TRUE, list |-> <<"positive">>],
       has_marker |-> FALSE, marker |-> 0],
      [kind |-> "failed", overall |-> NoOverall, labels |-> NoLabels,
       has_marker |-> FALSE, marker |-> 0],
      [kind |-> "nonobject", overall |-> NoOverall, labels |-> NoLabels,
       has_marker |-> FALSE, marker |-> 0] }

InitPipeline ==
    /\ pc = "collect_opensea_data"
    /\ tweets = <<>>
    /\ start_time = NoTime
    /\ end_time = NoTime
    /\ result = <<>>
    /\ response_text = NoResponse
    /\ api_calls = 0
    /\ PipelineIdle
    /\ CollectorIdle
    /\ SearchIdle
    /\ SourceIdle
    /\ ClockIdle
    /\ PollIdle

\* run 300-303 with collect_opensea_data (80-105): the sales collected, cut
\* to opensea_limit; a failure of the collection gives no sales, and the run
\* returns when there are none.
CollectOpenseaData ==
    /\ pc = "collect_opensea_data"
    /\ \E code \in StatusCodes, all_sales \in SeqsUpTo(PipelineSales, MaxSales + 1) :
          /\ code # 200 => all_sales = <<>>
          /\ status_code' = code
          /\ nft_sales' = collect_opensea_data(get_collection_events(code, all_sales),
                                               MaxSales)
          /\ pc' = IF nft_sales' = <<>> THEN "exit" ELSE "collect_twitter_data"
          /\ sale_index' = IF nft_sales' = <<>> THEN 0 ELSE 1
    /\ UNCHANGED <<opVars, attempted, all_tweets, tweets_by_sale,
                   sale_sentiment_results, enhanced_sales, collectorVars, searchVars, clockVars, pollVars>>

\* collect_twitter_data (107-133), one iteration of the loop: the search for
\* the sale raises, or returns posts carrying the sale's context.
CollectTwitterData ==
    /\ pc = "collect_twitter_data"
    /\ \E raised \in BOOLEAN, found \in FoundPosts :
          LET sale_data == prepare_sale_for_twitter(nft_sales[sale_index])
              new_tweets == [k \in 1..Len(found) |->
                                format_tweet(found[k], sale_data, sale_index)]
              after == after_iteration(raised, sale_index, Len(nft_sales),
                                       "collect_twitter_data", "analyze_sentiment")
          IN  /\ raised => found = <<>>
              /\ all_tweets' = IF raised THEN all_tweets ELSE all_tweets \o new_tweets
              /\ attempted' = Append(attempted,
                                  Iteration("twitter", 0, sale_index, Len(nft_sales), raised))
              /\ pc' = after.pc
              /\ sale_index' = after.index
    /\ UNCHANGED <<opVars, nft_sales, tweets_by_sale, sale_sentiment_results,
                   enhanced_sales, collectorVars, searchVars, sourceVars, clockVars, pollVars>>

\* analyze_sentiment 157-185: no posts, no results; otherwise the grouping.
GroupTweets ==
    /\ pc = "analyze_sentiment"
    /\ sale_index = 0
    /\ IF all_tweets = <<>>
       THEN /\ pc' = "save_results"
            /\ UNCHANGED <<tweets_by_sale, sale_index>>
       ELSE /\ tweets_by_sale' = group_tweets(<<>>, all_tweets)
            /\ sale_index' = 1
            /\ pc' = pc
    /\ UNCHANGED <<opVars, attempted, nft_sales, all_tweets, sale_sentiment_results,
                   enhanced_sales, collectorVars, searchVars, sourceVars, clockVars, pollVars>>

\* analyze_sentiment 186-214, one iteration of the loop over the groups: the
\* analysis raises, or its metrics are stored when they count a post.
AnalyzeSale ==
    /\ pc = "analyze_sentiment"
    /\ sale_index >= 1
    /\ \E raised \in BOOLEAN, r \in PipelineResponses :
          LET sale_data == tweets_by_sale[sale_index]
              sentiment_metrics == analyze_tweets_sentiment(sale_data.tweets, r).result
              after == after_iteration(raised, sale_index, Len(tweets_by_sale),
                                       "analyze_sentiment", "save_results")
          IN  /\ raised => r.kind = "failed"
              /\ sale_sentiment_results' =
                    IF ~raised /\ sentiment_metrics.analyzed_tweet_count > 0
                    THEN [k \in DOMAIN sale_sentiment_results \cup {sale_data.sale_key} |->
                             IF k = sale_data.sale_key
                             THEN sentiment_entry(sale_data, sentiment_metrics)
                             ELSE sale_sentiment_results[k]]
                    ELSE sale_sentiment_results
              /\ attempted' = Append(attempted,
                                  Iteration("analysis", 0, sale_index, Len(tweets_by_sale), raised))
              /\ pc' = after.pc
              /\ sale_index' = after.index
    /\ UNCHANGED <<opVars, nft_sales, all_tweets, tweets_by_sale, enhanced_sales,
                   collectorVars, searchVars, sourceVars, clockVars, pollVars>>

\* save_results (219-244): the merge whose records are written out.
SaveResults ==
    /\ pc = "save_results"
    /\ enhanced_sales' = merge_sentiment_data(nft_sales, sale_sentiment_results)
    /\ pc' = "done"
    /\ UNCHANGED <<opVars, loopVars, nft_sales, all_tweets, tweets_by_sale,
                   sale_sentiment_results, collectorVars, searchVars, sourceVars, clockVars, pollVars>>

NextPipeline ==
    \/ CollectOpenseaData
    \/ CollectTwitterData
    \/ GroupTweets
    \/ AnalyzeSale
    \/ SaveResults


(***************************************************************************)
(* collect_nft_data, the batch entry point of data_collector.py (384-455), *)
(* with NFTDataCollector.collect_nft_data (145-229).                       *)
(*                                                                         *)
(* A sale here is a raw OpenSea event; quantity is its payment quantity,   *)
(* which float() at line 171 rejects when it is no number.                 *)
(***************************************************************************)
MaxCollections == 2         \* most collections of one run
MaxSalesPerCollection == 2  \* largest sales_per_collection

nft_delay_seconds == 8
collection_delay_seconds == 180

CollectorSales == [identifier : {"1"}, quantity : {"1500", "n/a"}]

InitCollector ==
    /\ pc = "collection_loop"
    /\ tweets = <<>>
    /\ start_time = NoTime
    /\ end_time = NoTime
    /\ result = <<>>
    /\ response_text = NoResponse
    /\ api_calls = 0
    /\ PipelineIdle
    /\ collections \in {[i \in 1..k |-> i] : k \in 0..MaxCollections}
    /\ sales_per_collection \in 1..MaxSalesPerCollection
    /\ collection_index = 1
    /\ sales = <<>>
    /\ collector = [NewCollector EXCEPT
                       !.total_nfts = Len(collections) * sales_per_collection]
    /\ delays = <<>>
    /\ SearchIdle
    /\ SourceIdle
    /\ ClockIdle
    /\ PollIdle

\* 419-427: the sales of the next collection; none, and the loop continues
\* with the collection after it.
CollectNftSales ==
    /\ pc = "collection_loop"
    /\ collection_index <= Len(collections)
    /\ \E code \in StatusCodes,
          returned \in SeqsUpTo(CollectorSales, sales_per_collection + 1) :
          /\ code # 200 => returned = <<>>
          /\ status_code' = code
          /\ sales' = collect_nft_sales(get_collection_events(code, returned))
          /\ IF returned = <<>>
             THEN /\ collection_index' = collection_index + 1
                  /\ UNCHANGED <<pc, sale_index>>
             ELSE /\ pc' = "process_sale"
                  /\ sale_index' = 1
                  /\ UNCHANGED collection_index
    /\ attempted' = Append(attempted,
                        Iteration("collections", 0, collection_index, Len(collections), FALSE))
    /\ UNCHANGED <<opVars, pipelineVars, collections, sales_per_collection,
                   collector, delays, searchVars, clockVars, pollVars>>

\* 430-439, one iteration over sales[:sales_per_collection]: the sale's
\* record and metadata are stored, the counter advanced and the pause taken,
\* or the processing raised before anything was stored.
ProcessSale ==
    /\ pc = "process_sale"
    /\ LET sale == sales[sale_index]
           n == Min(Len(sales), sales_per_collection)
           raised == sale.quantity = "n/a"
           after == after_iteration(raised, sale_index, n, "process_sale", "end_collection")
       IN  /\ collector' =
                 IF raised THEN collector
                 ELSE store_record(collector, <<collection_index, sale.identifier>>)
           /\ delays' = IF raised THEN delays ELSE Append(delays, nft_delay_seconds)
           /\ attempted' = Append(attempted,
                               Iteration("collector", collection_index, sale_index, n, raised))
           /\ pc' = after.pc
           /\ sale_index' = after.index
    /\ UNCHANGED <<opVars, pipelineVars, collections, sales_per_collection,
                   collection_index, sales, searchVars, sourceVars, clockVars, pollVars>>

\* 441-444: the pause between collections, not taken after the last one.
EndCollection ==
    /\ pc = "end_collection"
    /\ delays' = IF collection_index < Len(collections)
                 THEN Append(delays, collection_delay_seconds)
                 ELSE delays
    /\ collection_index' = collection_index + 1
    /\ pc' = "collection_loop"
    /\ UNCHANGED <<opVars, loopVars, pipelineVars, collections, sales_per_collection,
                   sales, collector, searchVars, sourceVars, clockVars, pollVars>>

\* 447-455: every collection done, the records are handed to save_data and
\* the collector holding them is returned.
SaveData ==
    /\ pc = "collection_loop"
    /\ collection_index > Len(collections)
    /\ result' = collector.collected_data
    /\ pc' = "saved"
    /\ UNCHANGED <<tweets, start_time, end_time, response_text, api_calls, loopVars,
                   pipelineVars, collectorVars, searchVars, sourceVars, clockVars, pollVars>>

NextCollector ==
    \/ CollectNftSales
    \/ ProcessSale
    \/ EndCollection
    \/ SaveData

(***************************************************************************)
(* Specification SpecBatch: a run of the pipeline, or a run of the batch   *)
(* collector.                                                              *)
(***************************************************************************)
InitBatch == InitPipeline \/ InitCollector

NextBatch == NextPipeline \/ NextCollector

SpecBatch == InitBatch /\ [][NextBatch]_vars


\* The posts found by the search made for sale i.
TweetsOfSale(i) == {k \in 1..Len(all_tweets) : all_tweets[k].sale_no = i}

\* The entry with key k was computed from posts found for sale i.
ComputedFor(k, i) ==
    \E t \in TweetsOfSale(i) : sale_key_of_tweet(all_tweets[t]) = k

\* The merged record of sale i carries the sentiment fields of entry k.
MergedOnto(k, i) ==
    /\ k \in DOMAIN sale_sentiment_results
    /\ sale_key_of_sale(nft_sales[i]) = k
    /\ merged_fields(enhanced_sales[i]) = merged_fields(sale_sentiment_results[k])

C5_KeysIdentical ==
    \A k \in 1..Len(all_tweets) :
        sale_key_of_tweet(all_tweets[k]) = sale_key_of_sale(nft_sales[all_tweets[k].sale_no])

C5_NoOrphan ==
    pc = "done" =>
        \A k \in DOMAIN sale_sentiment_results :
            /\ \E i \in 1..Len(nft_sales) : ComputedFor(k, i)
            /\ \A i \in 1..Len(nft_sales) : ComputedFor(k, i) => MergedOnto(k, i)

LoopOver(a) ==
    /\ a.phase = "twitter" => pc # "collect_twitter_data"
    /\ a.phase = "analysis" => pc # "analyze_sentiment"
    /\ a.phase = "collector" =>
          ~(pc = "process_sale" /\ collection_index = a.collection)
    /\ a.phase = "collections" => pc # "collection_loop"

SameLoop(a, b) == a.phase = b.phase /\ a.collection = b.collection

\* C6: in collect_nft_data of data_collector, collect_twitter_data and
\* analyze_sentiment, an exception raised while processing one sale never
\* keeps the later sales of the loop from being processed: once the loop is
\* over, every sale after the one that raised has had its iteration, and in
\* the collector every later collection has had its sales requested.
C6_LaterSalesStillProcessed ==
    \A x \in 1..Len(attempted) :
        (attempted[x].raised /\ LoopOver(attempted[x])) =>
            /\ \A e \in (attempted[x].event + 1)..attempted[x].of :
                  \E y \in 1..Len(attempted) :
                      /\ y > x
                      /\ SameLoop(attempted[x], attempted[y])
                      /\ attempted[y].event = e
            /\ (attempted[x].phase = "collector" /\ pc = "saved") =>
                  \A c \in (attempted[x].collection + 1)..Len(collections) :
                      \E y \in 1..Len(attempted) :
                          /\ y > x
                          /\ attempted[y].phase = "collections"
                          /\ attempted[y].event = c

\* C6 witness: a loop is over in which one sale raised and a later sale was
\* processed without raising.
C6_Witness ==
    \E x, y \in 1..Len(attempted) :
        /\ attempted[x].raised
        /\ LoopOver(attempted[x])
        /\ x < y
        /\ SameLoop(attempted[x], attempted[y])
        /\ attempted[y].event > attempted[x].event
        /\ ~attempted[y].raised


(***************************************************************************)
(* Search terms.  A Python string whose characters matter (keywords, names *)
(* of collections and NFTs) is the sequence of its characters; None is the *)
(* one-element sequence PyNone, which is no string.                        *)
(***************************************************************************)
PyNone == <<"<None>">>

\* `if s:` -- None and the empty string are falsy.
truthy(s) == s # PyNone /\ s # <<>>

LowerOf ==
    [A |-> "a", B |-> "b", C |-> "c", D |-> "d", E |-> "e", F |-> "f", G |-> "g",
     H |-> "h", I |-> "i", J |-> "j", K |-> "k", L |-> "l", M |-> "m", N |-> "n",
     O |-> "o", P |-> "p", Q |-> "q", R |-> "r", S |-> "s", T |-> "t", U |-> "u",
     V |-> "v", W |-> "w", X |-> "x", Y |-> "y", Z |-> "z"]

\* str.lower()
lower(s) == [i \in 1..Len(s) |-> IF s[i] \in DOMAIN LowerOf THEN LowerOf[s[i]] ELSE s[i]]

\* str.replace(c, r) for a character c and a string r
RECURSIVE replace(_, _, _)
replace(s, c, r) ==
    IF s = <<>> THEN <<>>
    ELSE (IF Head(s) = c THEN r ELSE <<Head(s)>>) \o replace(Tail(s), c, r)

\* str.startswith(p)
startswith(s, p) == Len(p) <= Len(s) /\ SubSeq(s, 1, Len(p)) = p

\* `sub in s`
contains(s, sub) ==
    \E i \in 0..(Len(s) - Len(sub)) : SubSeq(s, i + 1, i + Len(sub)) = sub

(***************************************************************************)
(* The twikit collector, NFTTwitterScraper.search_tweets_for_nft           *)
(* (twitter_scraper.py 70-124).                                            *)
(*                                                                         *)
(* answers[k] is what the provider does with the k-th keyword: the search  *)
(* raises (failed) or returns posts, here their ids; the provider is taken *)
(* to return no more posts than the count it is asked for.                 *)
(***************************************************************************)
MaxKeywords == 4    \* longest twitter_keywords sequence
MaxAnswer == 2      \* most posts one search returns
MaxLimit == 2       \* largest max_tweets / limit

KeywordLimit == 3
ProviderCount == 50

Keyword(i) == <<"k", ToString(i)>>

\* The keyword list of a sale is never empty (_generate_twitter_keywords).
KeywordLists == {[i \in 1..k |-> Keyword(i)] : k \in 1..MaxKeywords}

\* One call of the provider's search, as recorded in `searched`.
Search(term, failed) == [term |-> term, failed |-> failed]

Limits == {NoLimit} \cup [is_none : {FALSE}, n : 1..MaxLimit]

\* The posts the provider knows, by id.
PostIds == {"A", "B", "C"}

\* One answer of the provider: a failure, or a page of posts, which lists no
\* post twice.
Answers == [failed : {TRUE}, tweets : {<<>>}]
               \cup [failed : {FALSE},
                     tweets : {t \in SeqsUpTo(PostIds, MaxAnswer) :
                                  \A i, j \in 1..Len(t) : t[i] = t[j] => i = j}]

\* _extract_tweet_data (142-187): the fields of a post the claims speak of.
extract_tweet_data(tweet, search_keyword) ==
    [tweet_id |-> tweet, search_keyword_used |-> search_keyword]

\* The last KeywordLimit terms of a list.
last_terms(terms) ==
    SubSeq(terms, Len(terms) - Min(Len(terms), KeywordLimit) + 1, Len(terms))

\* keywords[:3] and search_strategies[:3]: the first KeywordLimit terms.
top_terms(terms) == SubSeq(terms, 1, Min(Len(terms), KeywordLimit))

\* A loop that never finds it has enough posts.
never_enough(data, limit) == FALSE

\* `len(tweets_data) >= max_tweets` (113) and `len(tweets_data) >= limit`
\* (399): enough posts were accumulated.
enough(data, limit) == Len(data) >= limit.n

\* One iteration of `for keyword in keywords[:3]` (90-119).
twikit_keyword_step(acc, keyword, answer, limit) ==
    IF acc.stopped THEN acc
    ELSE IF limit.is_none
         \* min(max_tweets, 50) raises TypeError before the provider is called
         THEN acc
    ELSE LET count == Min(limit.n, ProviderCount)
             found == SubSeq(answer.tweets, 1, Min(Len(answer.tweets), count))
             data == acc.tweets_data \o
                 [i \in 1..Len(found) |-> extract_tweet_data(found[i], keyword)]
         IN  IF answer.failed
             THEN [acc EXCEPT !.searched = Append(@, Search(keyword, TRUE))]
             ELSE [tweets_data |-> data,
                   searched |-> Append(acc.searched, Search(keyword, FALSE)),
                   stopped |-> enough(data, limit)]

RECURSIVE twikit_keyword_loop(_, _, _, _)
twikit_keyword_loop(acc, keywords, answers, limit) ==
    IF keywords = <<>> THEN acc
    ELSE twikit_keyword_loop(twikit_keyword_step(acc, Head(keywords), Head(answers), limit),
                             Tail(keywords), Tail(answers), limit)

\* {tweet['tweet_id']: tweet for tweet in tweets_data} and list(....values())
\* (121-124): a key stays where it was first inserted, its value is the last
\* one assigned.
dict_by_tweet_id(tweets_data) ==
    LET first(id) == CHOOSE i \in 1..Len(tweets_data) :
                         /\ tweets_data[i].tweet_id = id
                         /\ \A j \in 1..(i - 1) : tweets_data[j].tweet_id # id
        last(id) == CHOOSE i \in 1..Len(tweets_data) :
                         /\ tweets_data[i].tweet_id = id
                         /\ \A j \in (i + 1)..Len(tweets_data) : tweets_data[j].tweet_id # id
        keep == SelectSeq([i \in 1..Len(tweets_data) |-> i],
                          LAMBDA i : first(tweets_data[i].tweet_id) = i)
    IN  [k \in 1..Len(keep) |-> tweets_data[last(tweets_data[keep[k]].tweet_id)]]

\* search_tweets_for_nft (70-124): [raised, result, searched, tweets_data].
twikit_search_tweets_for_nft(sale, limit, logged_in, login_ok, answers) ==
    LET keywords == sale.twitter_keywords
        top == top_terms(keywords)
        acc == twikit_keyword_loop([tweets_data |-> <<>>, searched |-> <<>>, stopped |-> FALSE],
                                   top, answers, limit)
    IN  IF ~logged_in /\ ~login_ok
        THEN [raised |-> TRUE, result |-> <<>>, searched |-> <<>>, tweets_data |-> <<>>]
        ELSE [raised |-> FALSE, result |-> dict_by_tweet_id(acc.tweets_data),
              searched |-> acc.searched, tweets_data |-> acc.tweets_data]


(***************************************************************************)
(* The twikit collector, NFTTwitterScraper.search_nft_tweets               *)
(* (twitter_scraper.py 331-419).                                           *)
(***************************************************************************)
S_boredapeyachtclub == <<"b", "o", "r", "e", "d", "a", "p", "e", "y", "a", "c", "h", "t", "c", "l", "u", "b">>
S_pudgypenguins == <<"p", "u", "d", "g", "y", "-", "p", "e", "n", "g", "u", "i", "n", "s">>
S_cryptopunks == <<"c", "r", "y", "p", "t", "o", "p", "u", "n", "k", "s">>
S_UnknownCollection == <<"U", "n", "k", "n", "o", "w", "n", " ", "C", "o", "l", "l", "e", "c", "t", "i", "o", "n">>
S_UnknownNFT == <<"U", "n", "k", "n", "o", "w", "n", " ", "N", "F", "T">>
S_BAYC == <<"B", "A", "Y", "C">>

AliasTerms(collection_name) ==
    IF contains(lower(collection_name), <<"b", "o", "r", "e", "d", "a", "p", "e">>)
    THEN <<S_BAYC, <<"#", "B", "A", "Y", "C">>, <<"B", "o", "r", "e", "d", " ", "A", "p", "e">>, <<"B", "o", "r", "e", "d", "A", "p", "e">>>>
    ELSE IF contains(lower(collection_name), <<"p", "u", "d", "g", "y">>)
    THEN <<<<"P", "u", "d", "g", "y", " ", "P", "e", "n", "g", "u", "i", "n", "s">>, <<"#", "P", "u", "d", "g", "y", "P", "e", "n", "g", "u", "i", "n", "s">>, <<"p", "u", "d", "g", "y">>>>
    ELSE IF contains(lower(collection_name), <<"c", "r", "y", "p", "t", "o">>) /\ contains(lower(collection_name), <<"p", "u", "n", "k">>)
    THEN <<<<"C", "r", "y", "p", "t", "o", "P", "u", "n", "k">>, <<"#", "C", "r", "y", "p", "t", "o", "P", "u", "n", "k", "s">>, <<"p", "u", "n", "k">>>>
    ELSE <<>>

GenericTerms == <<<<"N", "F", "T">>, <<"#", "N", "F", "T">>, <<"e", "t", "h", "e", "r", "e", "u", "m", " ", "n", "f", "t">>>>

\* 349-372: [raised, strategies]; nft_name.startswith(None) raises TypeError.
search_strategies(nft_name, collection_name) ==
    LET collection_terms ==
            IF truthy(collection_name) /\ collection_name # S_UnknownCollection
            THEN <<replace(replace(collection_name, "-", <<" ">>), "_", <<" ">>),
                   <<"#">> \o collection_name>> \o AliasTerms(collection_name)
            ELSE <<>>
        name_tested == truthy(nft_name) /\ nft_name # S_UnknownNFT
        name_terms ==
            IF name_tested /\ ~startswith(nft_name, collection_name)
            THEN <<nft_name>>
            ELSE <<>>
    IN  IF name_tested /\ collection_name = PyNone
        THEN [raised |-> TRUE, strategies |-> <<>>]
        ELSE [raised |-> FALSE,
              strategies |-> collection_terms \o name_terms \o GenericTerms]

\* One iteration of `for search_term in search_strategies[:3]` (375-412).
nft_tweets_step(acc, search_term, answer, limit) ==
    IF acc.stopped THEN acc
    ELSE LET found == IF limit.is_none THEN answer.tweets
                      ELSE SubSeq(answer.tweets, 1, Min(Len(answer.tweets), limit.n))
             data == acc.tweets_data \o
                 [i \in 1..Len(found) |->
                     [text |-> found[i], search_term_used |-> search_term]]
             done == Append(acc.searched, Search(search_term, answer.failed))
         IN  IF answer.failed \/ found = <<>>
             THEN [acc EXCEPT !.searched = done]
             ELSE IF limit.is_none
             \* len(tweets_data) >= None raises after the posts were appended
             THEN [acc EXCEPT !.searched = done, !.tweets_data = data]
             ELSE IF enough(data, limit)
             THEN [tweets_data |-> SubSeq(data, 1, limit.n),
                   searched |-> done,
                   stopped |-> TRUE]
             ELSE [acc EXCEPT !.searched = done, !.tweets_data = data]

RECURSIVE nft_tweets_loop(_, _, _, _)
nft_tweets_loop(acc, terms, answers, limit) ==
    IF terms = <<>> THEN acc
    ELSE nft_tweets_loop(nft_tweets_step(acc, Head(terms), Head(answers), limit),
                         Tail(terms), Tail(answers), limit)

\* search_nft_tweets (331-419): [raised, result, searched, tweets_data].
search_nft_tweets(nft_name, collection_name, limit, logged_in, login_ok, answers) ==
    LET built == search_strategies(nft_name, collection_name)
        top == top_terms(built.strategies)
        acc == nft_tweets_loop([tweets_data |-> <<>>, searched |-> <<>>, stopped |-> FALSE],
                               top, answers, limit)
    IN  IF ~logged_in /\ ~login_ok
        THEN [raised |-> TRUE, result |-> <<>>, searched |-> <<>>, tweets_data |-> <<>>]
        ELSE IF built.raised
        THEN [raised |-> FALSE, result |-> <<>>, searched |-> <<>>, tweets_data |-> <<>>]
        ELSE [raised |-> FALSE, result |-> acc.tweets_data,
              searched |-> acc.searched, tweets_data |-> acc.tweets_data]


(***************************************************************************)
(* The Apify collector, NFTTwitterScraper.search_tweets_for_nft            *)
(* (twitter_scraper_apify.py 83-188).  answer is what the one search of    *)
(* _search_with_time_filter (190-226) gives: a failure, which it turns     *)
(* into no posts, or the posts of the run.                                 *)
(***************************************************************************)
ApifyPosts ==
    [id : {"A", "B"}, text : {[head |-> "gm", tail |-> ""]},
     created_at : {[fmt |-> "twitter", wall |-> w, off |-> 0] : w \in {0, MaxTime}}]

ApifyAnswers == [failed : {TRUE}, tweets : {<<>>}]
                    \cup [failed : {FALSE}, tweets : SeqsUpTo(ApifyPosts, MaxAnswer)]

\* The search window of a sale: none, or the day before the sale.
Windows ==
    { [twitter_search_start |-> NoTime, twitter_search_end |-> NoTime],
      [twitter_search_start |-> [fmt |-> "isoOffset", wall |-> 0, off |-> 0],
       twitter_search_end |-> [fmt |-> "isoOffset", wall |-> 1, off |-> 0]] }

\* [raised, result, searched, tweets_data]; keywords[0] of an empty list
\* raises IndexError outside every try.
apify_search_tweets_for_nft(sale, limit, answer) ==
    LET keywords == sale.twitter_keywords
        search_start == sale.twitter_search_start
        search_end == sale.twitter_search_end
        all_found == IF answer.failed THEN <<>> ELSE answer.tweets
        unique_tweets == remove_duplicate_tweets(all_found)
        time_filtered_tweets ==
            IF search_start.fmt # "empty" /\ search_end.fmt # "empty"
            THEN filter_tweets_by_time(unique_tweets, search_start, search_end)
            ELSE unique_tweets
    IN  IF keywords = <<>>
        THEN [raised |-> TRUE, result |-> <<>>, searched |-> <<>>, tweets_data |-> <<>>]
        ELSE [raised |-> FALSE,
              result |-> IF limit.is_none THEN time_filtered_tweets
                         ELSE SubSeq(time_filtered_tweets, 1,
                                     Min(Len(time_filtered_tweets), limit.n)),
              searched |-> <<Search(keywords[1], answer.failed)>>,
              tweets_data |-> time_filtered_tweets]

(***************************************************************************)
(* Specification SpecSearch: one call of one of the three searches, for    *)
(* every keyword list, limit and session state, the provider answering     *)
(* each search with a failure or with posts.                               *)
(***************************************************************************)
SearchNames == {PyNone, <<>>, <<"A", "z", " ", "#", "7">>,
                S_boredapeyachtclub \o <<" ", "#", "7">>}
SearchCollections == {PyNone, <<>>, <<"a", "-", "z">>, S_boredapeyachtclub}

InitSearch ==
    /\ pc \in {"twikit_search_tweets_for_nft", "search_nft_tweets",
               "apify_search_tweets_for_nft"}
    /\ tweets = <<>>
    /\ start_time = NoTime
    /\ end_time = NoTime
    /\ result = <<>>
    /\ response_text = NoResponse
    /\ api_calls = 0
    /\ PipelineIdle
    /\ CollectorIdle
    /\ nft_sale \in
          CASE pc = "search_nft_tweets" ->
                   [nft_name : SearchNames, collection_name : SearchCollections]
            [] pc = "twikit_search_tweets_for_nft" ->
                   [twitter_keywords : KeywordLists]
            [] OTHER ->
                   {update([twitter_keywords |-> k], w) : k \in KeywordLists, w \in Windows}
    /\ max_tweets \in Limits
    /\ is_logged_in \in (IF pc = "apify_search_tweets_for_nft" THEN {TRUE} ELSE BOOLEAN)
    /\ searched = <<>>
    /\ error = NoError
    /\ SourceIdle
    /\ ClockIdle
    /\ PollIdle

Returned(out, error_kind) ==
    /\ result' = out.result
    /\ tweets' = out.tweets_data
    /\ searched' = out.searched
    /\ error' = IF out.raised THEN error_kind ELSE NoError
    /\ pc' = IF out.raised THEN "raised" ELSE "returned"
    /\ UNCHANGED <<start_time, end_time, response_text, api_calls, loopVars,
                   pipelineVars, collectorVars, nft_sale, max_tweets, sourceVars, clockVars, pollVars>>

TwikitSearchTweetsForNft ==
    /\ pc = "twikit_search_tweets_for_nft"
    /\ \E login_ok \in BOOLEAN, answers \in [1..KeywordLimit -> Answers] :
          /\ is_logged_in => login_ok
          /\ is_logged_in' = login_ok
          /\ Returned(twikit_search_tweets_for_nft(nft_sale, max_tweets, is_logged_in,
                                                   login_ok, answers), "LoginError")

SearchNftTweets ==
    /\ pc = "search_nft_tweets"
    /\ \E login_ok \in BOOLEAN, answers \in [1..KeywordLimit -> Answers] :
          /\ is_logged_in => login_ok
          /\ is_logged_in' = login_ok
          /\ Returned(search_nft_tweets(nft_sale.nft_name, nft_sale.collection_name,
                                        max_tweets, is_logged_in, login_ok, answers),
                      "LoginError")

ApifySearchTweetsForNft ==
    /\ pc = "apify_search_tweets_for_nft"
    /\ \E answer \in ApifyAnswers :
          Returned(apify_search_tweets_for_nft(nft_sale, max_tweets, answer), "IndexError")
    /\ UNCHANGED is_logged_in

NextSearch ==
    \/ TwikitSearchTweetsForNft
    \/ SearchNftTweets
    \/ ApifySearchTweetsForNft

SpecSearch == InitSearch /\ [][NextSearch]_vars


\* The terms the search had to go through: the first KeywordLimit strategies.
TermsOf(sale) ==
    IF "twitter_keywords" \in DOMAIN sale THEN sale.twitter_keywords
    ELSE search_strategies(sale.nft_name, sale.collection_name).strategies

\* C11: collecting posts for a sale never fails as a whole: no search raises
\* an error to its caller, a failed search for one term is followed by the
\* search for the next term, and when every search failed the result is the
\* empty sequence.
C11_SearchNeverFailsAsWhole ==
    /\ pc # "raised"
    /\ pc = "returned" =>
          /\ \A k \in 1..Len(searched) :
                (searched[k].failed /\ k < Min(Len(TermsOf(nft_sale)), KeywordLimit))
                    => Len(searched) > k
          /\ (\A k \in 1..Len(searched) : searched[k].failed) => result = <<>>

\* C12: when max_results (max_tweets / limit) is not null the returned
\* sequence never has more than max_results posts; when it is null the
\* searches are made and every collected post is returned.
C12_ResultWithinMaxResults ==
    pc = "returned" =>
       /\ ~max_tweets.is_none => Len(result) <= max_tweets.n
       /\ max_tweets.is_none =>
             /\ TermsOf(nft_sale) # <<>> => searched # <<>>
             /\ \A i \in 1..Len(tweets) : \E j \in 1..Len(result) :
                   result[j] = tweets[i]

\* C13: an HTTP 403 of the sale-event source ends the run with an error that
\* reaches the caller; it is never turned into an empty list of sales with
\* the run going on or ending normally.
C13_AuthFailureSurfaced ==
    status_code = 403 => (pc = "raised" /\ error # NoError)

\* C14: sale events are processed strictly one after another: when the
\* collect step of a sale event begins, every earlier sale event of the run
\* has been collected, scored and merged (or given up after an error).
C14_OneSaleAtATime ==
    /\ (pc = "collect_twitter_data" /\ sale_index > 1) =>
          Len(enhanced_sales) >= sale_index - 1
    /\ pc = "process_sale" =>
          Len(collector.collected_data) =
              Cardinality({x \in 1..Len(attempted) :
                              /\ attempted[x].phase = "collector"
                              /\ ~attempted[x].raised})


(***************************************************************************)
(* Specification SpecInterrupt: a run of the batch collector that an       *)
(* external interrupt (Ctrl-C, cancellation of the task) may end between   *)
(* two sale events.                                                        *)
(***************************************************************************)
\* What the interrupt raises inside collect_nft_data: KeyboardInterrupt, or
\* the CancelledError asyncio.run throws into the task.  Both derive from
\* BaseException.
Interrupts == {"KeyboardInterrupt", "CancelledError"}

\* `except Exception` (437, and 173 of full_collection.py) catches neither.
caught_by_except_Exception(exc) == exc \notin Interrupts

\* The interrupt arrives at an await between two sale events (the pauses of
\* 435 and 444, the request of 423): it leaves collect_nft_data through the
\* `except Exception` of 437, before save_data (447) and `return collector`
\* (455) are reached.
Interrupt ==
    /\ pc \in {"collection_loop", "process_sale", "end_collection"}
    /\ \E exc \in Interrupts :
          IF caught_by_except_Exception(exc)
          THEN UNCHANGED <<pc, error>>
          ELSE /\ error' = exc
               /\ pc' = "interrupted"
    /\ UNCHANGED <<opVars, loopVars, pipelineVars, collectorVars, nft_sale, max_tweets,
                   is_logged_in, searched, sourceVars, clockVars, pollVars>>

NextInterrupt == NextCollector \/ Interrupt

SpecInterrupt == InitCollector /\ [][NextInterrupt]_vars

\* C15: after an external interrupt between two sale events of
\* collect_nft_data no further event is started, and every record merged
\* before the interrupt has been returned / handed to persistence.
C15_InterruptKeepsMerged ==
    pc = "interrupted" => result = collector.collected_data


(***************************************************************************)
(* The price of a sale.  The payment of an event gives the amount in base  *)
(* units as a string of digits and the number of decimals of the token.    *)
(* A price is the decimal fraction num / 10^exp, kept in lowest terms, so  *)
(* that equal prices are equal records (rounding of floats is left out).   *)
(***************************************************************************)
MaxDigits == 2
MaxDecimals == 2

\* `float(price_wei) / 1e18` (opensea_collector.py 341) and the default of
\* `payment_info.get('decimals', 18)` (data_collector.py 172).
WeiDecimals == 18
DefaultDecimals == 18

DigitValue == [c \in {"0", "1", "5"} |-> CASE c = "0" -> 0 [] c = "1" -> 1 [] c = "5" -> 5]

\* float(s) of a string: its value when it is a non-empty string of digits,
\* ValueError otherwise.
RECURSIVE digits_value(_)
digits_value(s) ==
    IF s = <<>> THEN 0
    ELSE 10 * digits_value(SubSeq(s, 1, Len(s) - 1)) + DigitValue[s[Len(s)]]

py_float(s) ==
    IF s # <<>> /\ \A i \in 1..Len(s) : s[i] \in DOMAIN DigitValue
    THEN [raised |-> FALSE, value |-> digits_value(s)]
    ELSE [raised |-> TRUE, value |-> 0]

\* num / 10^exp in lowest terms.
RECURSIVE decimal(_, _)
decimal(num, exp) ==
    IF num = 0 THEN [num |-> 0, exp |-> 0]
    ELSE IF exp > 0 /\ num % 10 = 0 THEN decimal(num \div 10, exp - 1)
    ELSE [num |-> num, exp |-> exp]

\* The payments of the events: quantity a string, decimals given or absent.
Payments ==
    [quantity : SeqsUpTo({"0", "1", "5", "x"}, MaxDigits),
     decimals : [present : {TRUE}, n : (0..MaxDecimals) \cup {WeiDecimals}]
                   \cup {[present |-> FALSE, n |-> 0]}]

\* payment_info.get('decimals', 18)
decimals_of(payment) ==
    IF payment.decimals.present THEN payment.decimals.n ELSE DefaultDecimals

\* NFTDataCollector.collect_nft_data 167-173: [raised, sale_price_eth].
sale_price_eth(payment) ==
    LET sale_price_wei == py_float(payment.quantity)
        decimals == decimals_of(payment)
    IN  IF sale_price_wei.raised
        THEN [raised |-> TRUE, price |-> decimal(0, 0)]
        ELSE [raised |-> FALSE,
              price |-> IF sale_price_wei.value > 0
                        THEN decimal(sale_price_wei.value, decimals)
                        ELSE decimal(0, 0)]

\* OpenSeaCollector._extract_sale_data 339-344: [raised, price_eth]; the
\* divisor is 1e18 whatever the decimals of the payment.
price_eth(payment) ==
    LET price_wei == py_float(payment.quantity)
    IN  [raised |-> FALSE,
         price |-> IF price_wei.raised THEN decimal(0, 0)
                   ELSE decimal(price_wei.value, WeiDecimals)]

(***************************************************************************)
(* Specification SpecPrice: the price of one event, derived by one of the  *)
(* two collectors.                                                         *)
(***************************************************************************)
InitPrice ==
    /\ pc \in {"collect_nft_data", "_extract_sale_data"}
    /\ tweets = <<>>
    /\ start_time = NoTime
    /\ end_time = NoTime
    /\ result = <<>>
    /\ response_text = NoResponse
    /\ api_calls = 0
    /\ PipelineIdle
    /\ CollectorIdle
    /\ nft_sale \in [payment : Payments]
    /\ max_tweets = NoLimit
    /\ is_logged_in = FALSE
    /\ searched = <<>>
    /\ error = NoError
    /\ SourceIdle
    /\ ClockIdle
    /\ PollIdle

Priced(out) ==
    /\ result' = out.price
    /\ error' = IF out.raised THEN "ValueError" ELSE NoError
    /\ pc' = IF out.raised THEN "raised" ELSE "priced"
    /\ UNCHANGED <<tweets, start_time, end_time, response_text, api_calls, loopVars,
                   pipelineVars, collectorVars, nft_sale, max_tweets, is_logged_in,
                   searched, sourceVars, clockVars, pollVars>>

CollectNftDataPrice ==
    /\ pc = "collect_nft_data"
    /\ Priced(sale_price_eth(nft_sale.payment))

ExtractSaleData ==
    /\ pc = "_extract_sale_data"
    /\ Priced(price_eth(nft_sale.payment))

NextPrice ==
    \/ CollectNftDataPrice
    \/ ExtractSaleData

SpecPrice == InitPrice /\ [][NextPrice]_vars

\* C16: the derived price of an event is its amount in base units divided by
\* 10 to the power of the event's decimals, in both collectors.
C16_PriceIsAmountOverDecimals ==
    (pc = "priced" /\ ~py_float(nft_sale.payment.quantity).raised) =>
        result = decimal(py_float(nft_sale.payment.quantity).value,
                         decimals_of(nft_sale.payment))


(***************************************************************************)
(* The search terms built for a sale: the keywords of                      *)
(* OpenSeaCollector._generate_twitter_keywords (opensea_collector.py       *)
(* 388-417), and the strategies search_nft_tweets builds for the name that *)
(* NFTDataCollector.collect_nft_data hands it (data_collector.py 148-165). *)
(***************************************************************************)
\* str.strip(), of blanks
RECURSIVE strip(_)
strip(s) ==
    IF s = <<>> THEN <<>>
    ELSE IF Head(s) = " " THEN strip(Tail(s))
    ELSE IF s[Len(s)] = " " THEN strip(SubSeq(s, 1, Len(s) - 1))
    ELSE s

\* seen.add(k.lower()): keywords are remembered by their lower-case form.
seen_key_cased(k) == k

seen_key(k) == lower(k)

\* 408-415: the keywords not seen before, in order.
RECURSIVE unique_keywords(_, _, _)
unique_keywords(keywords, seen, unique) ==
    IF keywords = <<>> THEN unique
    ELSE LET k == Head(keywords)
         IN  IF seen_key(k) \notin seen
             THEN unique_keywords(Tail(keywords), seen \cup {seen_key(k)},
                                  Append(unique, k))
             ELSE unique_keywords(Tail(keywords), seen, unique)

S_floor == <<" ", "f", "l", "o", "o", "r">>
S_price == <<" ", "p", "r", "i", "c", "e">>

\* 390-406: the candidate keywords, in the order they are appended.
keyword_candidates(nft, collection_slug) ==
    LET collection_name == IF truthy(nft.collection) THEN nft.collection
                           ELSE collection_slug
        nft_id == nft.identifier
        nft_name == nft.name
    IN  (IF truthy(nft_name) THEN <<nft_name>> ELSE <<>>)
        \o (IF truthy(collection_name) /\ truthy(nft_id)
            THEN <<collection_name \o <<" ">> \o nft_id>> ELSE <<>>)
        \o << <<"#">> \o replace(collection_slug, "-", <<>>),
               collection_name \o S_floor,
               collection_name \o S_price >>

generate_twitter_keywords(nft, collection_slug) ==
    unique_keywords(keyword_candidates(nft, collection_slug), {}, <<>>)

S_unknown == <<"u", "n", "k", "n", "o", "w", "n">>

\* data_collector.py 151-160: the name of the NFT, verbatim or synthesized
\* from the collection and the token id.
nft_name_of(nft_info, collection_name) ==
    LET token_id == IF nft_info.identifier = PyNone THEN S_unknown
                    ELSE nft_info.identifier
        opensea_name == nft_info.name
    IN  IF truthy(opensea_name) /\ truthy(strip(opensea_name))
        THEN opensea_name
        ELSE collection_name \o <<" ", "#">> \o token_id

(***************************************************************************)
(* Specification SpecKeywords: the terms built for one sale event, by      *)
(* either builder.                                                         *)
(***************************************************************************)
KeywordSlugs == {S_boredapeyachtclub, <<"a", "-", "z">>, <<"a">>}
KeywordCollections == {PyNone, <<"A">>, <<"a", "z">>}
KeywordNames == {PyNone, <<>>, <<" ">>, <<"A", " ", "1">>, <<"a", " ", "1">>,
                 <<"#", "A", "Z">>, <<"a">> \o S_floor}
KeywordIds == {PyNone, <<"1">>}

InitKeywords ==
    /\ pc \in {"_generate_twitter_keywords", "search_strategies"}
    /\ tweets = <<>>
    /\ start_time = NoTime
    /\ end_time = NoTime
    /\ result = <<>>
    /\ response_text = NoResponse
    /\ api_calls = 0
    /\ PipelineIdle
    /\ CollectorIdle
    /\ nft_sale \in [nft : [name : KeywordNames, identifier : KeywordIds,
                            collection : KeywordCollections],
                     collection_slug : KeywordSlugs]
    /\ max_tweets = NoLimit
    /\ is_logged_in = FALSE
    /\ searched = <<>>
    /\ error = NoError
    /\ SourceIdle
    /\ ClockIdle
    /\ PollIdle

Built(terms, next_pc) ==
    /\ result' = terms
    /\ pc' = next_pc
    /\ UNCHANGED <<tweets, start_time, end_time, response_text, api_calls, loopVars,
                   pipelineVars, collectorVars, searchVars, sourceVars, clockVars, pollVars>>

GenerateTwitterKeywords ==
    /\ pc = "_generate_twitter_keywords"
    /\ Built(generate_twitter_keywords(nft_sale.nft, nft_sale.collection_slug),
             "generated")

BuildSearchStrategies ==
    /\ pc = "search_strategies"
    /\ Built(search_strategies(nft_name_of(nft_sale.nft, nft_sale.collection_slug),
                               nft_sale.collection_slug).strategies,
             "built")

NextKeywords ==
    \/ GenerateTwitterKeywords
    \/ BuildSearchStrategies

SpecKeywords == InitKeywords /\ [][NextKeywords]_vars

\* The sale has no NFT name of its own.
NoNftName(nft) == ~(truthy(nft.name) /\ truthy(strip(nft.name)))

\* C17: in the sequence of search terms built for a sale the name of the NFT
\* (verbatim, or synthesized as "<collection> #<token>") comes first, before
\* the collection name, the hashtag, the aliases and the generic terms; for
\* the slug "boredapeyachtclub" and no NFT name the first term is
\* "boredapeyachtclub #<token>" and "BAYC" is among the terms.
C17_NameFirstInStrategies ==
    pc \in {"generated", "built"} =>
        /\ result # <<>>
        /\ result[1] = nft_name_of(nft_sale.nft, nft_sale.collection_slug)
        /\ (nft_sale.collection_slug = S_boredapeyachtclub /\ NoNftName(nft_sale.nft)) =>
              \E k \in 1..Len(result) : result[k] = S_BAYC

\* The candidates of the sale in state, and those seen for the first time.
Candidates == keyword_candidates(nft_sale.nft, nft_sale.collection_slug)

FirstSeen ==
    {i \in 1..Len(Candidates) :
        \A j \in 1..(i - 1) : lower(Candidates[j]) # lower(Candidates[i])}

\* C18: _generate_twitter_keywords returns a non-empty sequence, no two
\* elements of which are equal when compared case-insensitively, and which
\* lists the candidate terms in the order they were first seen.
C18_KeywordsUniqueInFirstSeenOrder ==
    pc = "generated" =>
        /\ result # <<>>
        /\ \A i, j \in 1..Len(result) :
              lower(result[i]) = lower(result[j]) => i = j
        /\ Len(result) = Cardinality(FirstSeen)
        /\ \A k \in 1..Len(result) :
              \E i \in FirstSeen :
                  /\ Cardinality({j \in FirstSeen : j < i}) = k - 1
                  /\ result[k] = Candidates[i]

\* A candidate differing from an earlier one by case only was dropped, and
\* a later candidate kept after it.
C18_Witness ==
    /\ pc = "generated"
    /\ \E i, j, l \in 1..Len(Candidates) :
          /\ j < i /\ i < l
          /\ Candidates[j] # Candidates[i]
          /\ lower(Candidates[j]) = lower(Candidates[i])
          /\ l \in FirstSeen
          /\ result[Len(result)] = Candidates[l]

\* The search in state is the twikit search_tweets_for_nft.
TwikitKeywordSearch == DOMAIN nft_sale = {"twitter_keywords"}

\* C19: of several accumulated posts with the same tweet_id the twikit
\* search_tweets_for_nft returns the first one encountered, with the data of
\* that occurrence (its search_keyword_used included), and no other.
C19_FirstOccurrenceDataKept ==
    (pc = "returned" /\ TwikitKeywordSearch) =>
        /\ \A i \in 1..Len(tweets) :
              (\A j \in 1..(i - 1) : tweets[j].tweet_id # tweets[i].tweet_id)
                  => \E k \in 1..Len(result) : result[k] = tweets[i]
        /\ \A k, l \in 1..Len(result) :
              result[k].tweet_id = result[l].tweet_id => k = l

\* C20: for one sale the collector makes at most KeywordLimit (3) calls of
\* the provider's search, each for one term of the first 3 terms built for
\* the sale, in their order, however many terms were built.
C20_AtMostThreeSearches ==
    /\ Len(searched) <= KeywordLimit
    /\ \A k \in 1..Len(searched) :
          /\ k <= Len(TermsOf(nft_sale))
          /\ searched[k].term = TermsOf(nft_sale)[k]

\* More than three terms were built and three searches were made.
C20_Witness ==
    /\ pc = "returned"
    /\ Len(TermsOf(nft_sale)) > KeywordLimit
    /\ Len(searched) = KeywordLimit

\* The term a post of `tweets` was found with.
TermUsed(t) ==
    IF "search_keyword_used" \in DOMAIN t THEN t.search_keyword_used
    ELSE IF "search_term_used" \in DOMAIN t THEN t.search_term_used
    ELSE searched[1].term

\* The number of posts accumulated when the k-th search was issued.
AccumulatedBefore(k) ==
    Cardinality({i \in 1..Len(tweets) :
                    \E j \in 1..(k - 1) : searched[j].term = TermUsed(tweets[i])})

\* C21: in the strategy loop a search is issued only while fewer than
\* max_results posts were accumulated and an unused strategy among the
\* first 3 remains; once max_results is reached no further search is made.
C21_NoSearchOnceEnough ==
    (pc = "returned" /\ ~max_tweets.is_none) =>
        \A k \in 1..Len(searched) :
            /\ AccumulatedBefore(k) < max_tweets.n
            /\ k <= Min(Len(TermsOf(nft_sale)), KeywordLimit)

\* max_results was reached with an unused strategy left, and the loop stopped.
C21_Witness ==
    /\ pc = "returned"
    /\ ~max_tweets.is_none
    /\ "twitter_search_start" \notin DOMAIN nft_sale
    /\ Len(searched) >= 2
    /\ Len(searched) < Min(Len(TermsOf(nft_sale)), KeywordLimit)
    /\ Len(tweets) >= max_tweets.n
    /\ AccumulatedBefore(Len(searched)) < max_tweets.n


(***************************************************************************)
(* Specification SpecEvent: one sale event through                         *)
(* NFTDataCollector.collect_nft_data (data_collector.py 145-229), step by  *)
(* step: the search of collect_social_data (75), its scoring (91-94), and  *)
(* the building and storing of the record (167-229).  `attempted` records  *)
(* each step taken and whether it raised; `result` is social_data.         *)
(***************************************************************************)
EventSales ==
    [collection_slug : 1..MaxCollections, identifier : {"1", "2"},
     quantity : {"1500", "n/a"}]

\* _empty_sentiment_metrics (128-143) within _empty_social_metrics (118-126).
empty_social_metrics ==
    [total_tweets |-> 0, analyzed_tweet_count |-> 0, positive_tweets |-> 0]

\* 82-111: the metrics of the posts found, with the result of the analyzer
\* (a class that is not part of src/: it counts some of the posts handed to
\* it), or with the empty sentiment metrics when the analyzer raised.
social_metrics(found, raised, analyzed) ==
    [total_tweets |-> Len(found),
     analyzed_tweet_count |-> IF raised THEN 0 ELSE analyzed,
     positive_tweets |-> IF raised THEN 0 ELSE analyzed]

InitEvent ==
    /\ pc = "pending"
    /\ tweets = <<>>
    /\ start_time = NoTime
    /\ end_time = NoTime
    /\ result = <<>>
    /\ response_text = NoResponse
    /\ api_calls = 0
    /\ PipelineIdle
    /\ CollectorIdle
    /\ nft_sale \in EventSales
    /\ max_tweets = NoLimit
    /\ is_logged_in = FALSE
    /\ searched = <<>>
    /\ error = NoError
    /\ SourceIdle
    /\ ClockIdle
    /\ PollIdle

\* 148-165: the event is taken up and its name derived.
StartEvent ==
    /\ pc = "pending"
    /\ pc' = "collecting"
    /\ UNCHANGED <<opVars, loopVars, pipelineVars, collectorVars, searchVars, sourceVars, clockVars, pollVars>>

\* collect_social_data 74-78 and 114-116: the search raises or finds no
\* post, and the empty metrics are returned to collect_nft_data; or it finds
\* posts, which are scored next.
SearchTweets ==
    /\ pc = "collecting"
    /\ \E raised \in BOOLEAN, found \in FoundPosts :
          /\ raised => found = <<>>
          /\ tweets' = found
          /\ attempted' = Append(attempted, Iteration("collecting", 0, 1, 1, raised))
          /\ IF found = <<>>
             THEN /\ result' = empty_social_metrics
                  /\ pc' = "storing"
             ELSE /\ pc' = "scoring"
                  /\ UNCHANGED result
    /\ UNCHANGED <<start_time, end_time, response_text, api_calls, sale_index,
                   pipelineVars, collectorVars, searchVars, sourceVars, clockVars, pollVars>>

\* collect_social_data 90-112: the analysis raises and the empty sentiment
\* metrics stand in for its result (92-94), or it returns its metrics.
ScoreTweets ==
    /\ pc = "scoring"
    /\ \E raised \in BOOLEAN, analyzed \in 0..Len(tweets) :
          /\ raised => analyzed = 0
          /\ result' = social_metrics(tweets, raised, analyzed)
          /\ attempted' = Append(attempted, Iteration("scoring", 0, 1, 1, raised))
    /\ pc' = "storing"
    /\ UNCHANGED <<tweets, start_time, end_time, response_text, api_calls, sale_index,
                   pipelineVars, collectorVars, searchVars, sourceVars, clockVars, pollVars>>

\* 167-229: float() of the quantity raises and the event is given up by the
\* loop of collect_nft_data (437-439), or the record and the metadata are
\* appended and the counter advanced.
StoreRecord ==
    /\ pc = "storing"
    /\ LET raised == nft_sale.quantity = "n/a"
       IN  /\ collector' =
                 IF raised THEN collector
                 ELSE store_record(collector,
                                   <<nft_sale.collection_slug, nft_sale.identifier>>)
           /\ attempted' = Append(attempted, Iteration("storing", 0, 1, 1, raised))
           /\ pc' = IF raised THEN "skipped" ELSE "merged"
    /\ UNCHANGED <<opVars, sale_index, pipelineVars, collections, sales_per_collection,
                   collection_index, sales, delays, searchVars, sourceVars, clockVars, pollVars>>

NextEvent ==
    \/ StartEvent
    \/ SearchTweets
    \/ ScoreTweets
    \/ StoreRecord

SpecEvent == InitEvent /\ [][NextEvent]_vars

\* C22: an event whose collecting or scoring step raised is Skipped and no
\* record is appended for it; a record is appended only for an event whose
\* steps all completed (an event with no post found has nothing to score).
C22_RecordOnlyAfterScoring ==
    /\ pc \in {"pending", "collecting", "scoring", "storing", "merged", "skipped"}
    /\ collector.collected_data # <<>> =>
          /\ pc = "merged"
          /\ \A x \in 1..Len(attempted) : ~attempted[x].raised
    /\ (pc \in {"merged", "skipped"}
           /\ \E x \in 1..Len(attempted) : attempted[x].raised) => pc = "skipped"


(***************************************************************************)
(* Specification SpecSample: the collection of the sales of a pipeline     *)
(* run, NFTPipeline.collect_opensea_data (run_pipeline.py 80-105) calling  *)
(* OpenSeaCollector.collect_sample_data (opensea_collector.py 200-282),    *)
(* one collection after the other.  `sales` is the all_sales of            *)
(* collect_sample_data, `collection_index` the collection it is at.        *)
(***************************************************************************)
\* run_pipeline.py 85: max(1, opensea_limit // len(collections))
sales_per_collection_of(opensea_limit, n) ==
    IF opensea_limit \div n >= 1 THEN opensea_limit \div n ELSE 1

InitSample ==
    /\ pc = "collect_sample_data"
    /\ tweets = <<>>
    /\ start_time = NoTime
    /\ end_time = NoTime
    /\ result = <<>>
    /\ response_text = NoResponse
    /\ api_calls = 0
    /\ PipelineIdle
    /\ collections \in {[i \in 1..k |-> i] : k \in 1..MaxCollections}
    /\ sales_per_collection = sales_per_collection_of(MaxSales, Len(collections))
    /\ collection_index = 1
    /\ sales = <<>>
    /\ collector = NewCollector
    /\ delays = <<>>
    /\ SearchIdle
    /\ SourceIdle
    /\ ClockIdle
    /\ PollIdle

\* collect_sample_data 230-280, one iteration: the statistics and the events
\* of the collection are requested (234, 237) outside every try, so that the
\* ValueError of a failed request leaves collect_sample_data and is caught
\* by collect_opensea_data (103-105), which returns []; run then returns
\* (301-303).  Otherwise the sales of the events are added to all_sales.
QueryCollection ==
    /\ pc = "collect_sample_data"
    /\ collection_index <= Len(collections)
    /\ \E code \in StatusCodes,
          asset_events \in SeqsUpTo(PipelineSales, sales_per_collection) :
          LET events_data == get_collection_events(code, asset_events)
          IN  /\ code # 200 => asset_events = <<>>
              /\ status_code' = code
              /\ IF events_data.raised
                 THEN /\ nft_sales' = collect_opensea_data(events_data, MaxSales)
                      /\ pc' = "exit"
                      /\ UNCHANGED <<sales, collection_index>>
                 ELSE /\ sales' = sales \o events_data.asset_events
                      /\ collection_index' = collection_index + 1
                      /\ UNCHANGED <<nft_sales, pc>>
    /\ UNCHANGED <<opVars, loopVars, all_tweets, tweets_by_sale, sale_sentiment_results,
                   enhanced_sales, collections, sales_per_collection, collector, delays,
                   searchVars, clockVars, pollVars>>

\* collect_sample_data 282 and collect_opensea_data 93-101, run 300-305.
ReturnSales ==
    /\ pc = "collect_sample_data"
    /\ collection_index > Len(collections)
    /\ nft_sales' = collect_opensea_data([raised |-> FALSE, asset_events |-> sales],
                                         MaxSales)
    /\ pc' = IF nft_sales' = <<>> THEN "exit" ELSE "collect_twitter_data"
    /\ UNCHANGED <<opVars, loopVars, all_tweets, tweets_by_sale, sale_sentiment_results,
                   enhanced_sales, collectorVars, searchVars, sourceVars, clockVars, pollVars>>

NextSample ==
    \/ QueryCollection
    \/ ReturnSales

SpecSample == InitSample /\ [][NextSample]_vars

\* C23: a transient failure of the sale-event source for one collection is
\* never fatal: once collect_opensea_data is over, every collection has been
\* queried and the sales retrieved from the other collections are the sales
\* of the run, which goes on with them.
C23_TransientFailureRecovered ==
    (pc # "collect_sample_data" /\ status_code = 500) =>
        /\ collection_index >= Len(collections)
        /\ nft_sales = SubSeq(sales, 1, Min(Len(sales), MaxSales))
        /\ sales # <<>> => pc = "collect_twitter_data"


\* The tier of _parse_sentiment_from_response that produced the score of a
\* response: the JSON object with per-post labels (365-388), or the default
\* (0.0, 0.5) of a response without labels (372-373) or that does not
\* parse (390-392).
ParseTier(r) ==
    IF /\ r.kind = "json"
       /\ r.overall.tag \in {"num", "missing"}
       /\ r.labels.list # <<>>
    THEN "structured"
    ELSE "default"

SameRatio(a, b) == a.num * b.den = b.num * a.den

\* C24: the confidence returned by _parse_sentiment_from_response depends
\* only on the parse tier: any response parsed by the same tier as the one
\* that was analyzed gets the confidence that was returned for it.
C24_ConfidenceFixedPerTier ==
    (pc = "analyzed" /\ api_calls > 0
        /\ ~parse_sentiment_from_response(response_text).raised) =>
        \A r2 \in Responses :
            (/\ ~parse_sentiment_from_response(r2).raised
             /\ ParseTier(r2) = ParseTier(response_text))
                => SameRatio(result.sentiment_confidence,
                             parse_sentiment_from_response(r2).confidence)

(***************************************************************************)
(* Timestamp conversions.  Times are counted in hours.                     *)
(***************************************************************************)
LocalOffsets == {-1, 0, 1}

Max(a, b) == IF a >= b THEN a ELSE b

(***************************************************************************)
(* NFTTwitterScraper._calculate_hours_before_sale of the twikit collector  *)
(* (twitter_scraper.py 190-228).  A string no branch can parse raises and  *)
(* the except clause returns 0.0.                                          *)
(***************************************************************************)
twikit_tweet_dt(tweet) ==
    CASE tweet.fmt = "isoZ"      -> [ok |-> TRUE, aware |-> TRUE, t |-> tweet.wall - tweet.off]
      [] tweet.fmt = "twitter"   -> [ok |-> TRUE, aware |-> TRUE, t |-> tweet.wall - tweet.off]
      [] tweet.fmt = "isoOffset" -> [ok |-> TRUE, aware |-> TRUE, t |-> tweet.wall - tweet.off]
      \* tweet_dt.replace(tzinfo=datetime.timezone.utc)
      [] tweet.fmt = "isoNaive"  -> [ok |-> TRUE, aware |-> TRUE, t |-> tweet.wall]
      [] OTHER                   -> NoDatetime

twikit_sale_dt(sale) ==
    CASE sale.fmt = "isoZ"      -> [ok |-> TRUE, aware |-> TRUE, t |-> sale.wall - sale.off]
      [] sale.fmt = "isoOffset" -> [ok |-> TRUE, aware |-> TRUE, t |-> sale.wall - sale.off]
      \* sale_dt.replace(tzinfo=datetime.timezone.utc)
      [] sale.fmt = "isoNaive"  -> [ok |-> TRUE, aware |-> TRUE, t |-> sale.wall]
      \* '+' in sale_time_str: fromisoformat of the Twitter format raises
      [] OTHER                  -> NoDatetime

twikit_calculate_hours_before_sale(tweet, sale) ==
    LET tweet_dt == twikit_tweet_dt(tweet)
        sale_dt == twikit_sale_dt(sale)
    IN  IF ~tweet_dt.ok \/ ~sale_dt.ok THEN 0
        ELSE sale_dt.t - tweet_dt.t

(***************************************************************************)
(* NFTTwitterScraper._calculate_hours_before_sale of the Apify collector   *)
(* (twitter_scraper_apify.py 416-435).  Subtracting a naive datetime from  *)
(* an aware one raises TypeError, which the except clause turns into 0.0.  *)
(***************************************************************************)
apify_calculate_hours_before_sale(tweet_time_str, sale_time_str) ==
    LET tweet_dt == parse_twitter_timestamp(tweet_time_str)
        sale_dt == parse_twitter_timestamp(sale_time_str)
    IN  IF tweet_time_str.fmt = "empty" \/ sale_time_str.fmt = "empty" THEN 0
        ELSE IF ~tweet_dt.ok \/ ~sale_dt.ok THEN 0
        ELSE IF compare_raises(sale_dt, tweet_dt) THEN 0
        ELSE Max(0, sale_dt.t - tweet_dt.t)

(***************************************************************************)
(* NFTDataCollector.collect_nft_data, the conversion of an integer         *)
(* event_timestamp (data_collector.py 176-183):                            *)
(* datetime.fromtimestamp(event_timestamp).isoformat() is the wall-clock   *)
(* reading of the zone the process runs in, written without a zone.        *)
(***************************************************************************)
sale_timestamp_of(epoch, offset) ==
    [fmt |-> "isoNaive", wall |-> epoch + offset, off |-> 0]

(***************************************************************************)
(* Specification SpecClock: the four conversions applied to every pair of  *)
(* timestamps, every epoch 0..MaxTime and every local zone.                *)
(***************************************************************************)
InitClock ==
    /\ pc = "clock"
    /\ event_timestamp \in 0..MaxTime
    /\ local_offset \in LocalOffsets
    /\ tweet_time \in Timestamps
    /\ sale_time \in Timestamps
    /\ tweets = <<>>
    /\ start_time = NoneVal
    /\ end_time = NoneVal
    /\ result = NoneVal
    /\ response_text = NoResponse
    /\ api_calls = 0
    /\ PipelineIdle
    /\ CollectorIdle
    /\ SearchIdle
    /\ SourceIdle
    /\ PollIdle

ParseTwitterTimestamp ==
    /\ pc = "clock"
    /\ result' = parse_twitter_timestamp(tweet_time)
    /\ pc' = "parsed"
    /\ UNCHANGED <<tweets, start_time, end_time, response_text, api_calls,
                   loopVars, pipelineVars, collectorVars, searchVars,
                   sourceVars, clockVars, pollVars>>

TwikitHoursBeforeSale ==
    /\ pc = "clock"
    /\ result' = twikit_calculate_hours_before_sale(tweet_time, sale_time)
    /\ pc' = "twikit_hours"
    /\ UNCHANGED <<tweets, start_time, end_time, response_text, api_calls,
                   loopVars, pipelineVars, collectorVars, searchVars,
                   sourceVars, clockVars, pollVars>>

ApifyHoursBeforeSale ==
    /\ pc = "clock"
    /\ result' = apify_calculate_hours_before_sale(tweet_time, sale_time)
    /\ pc' = "apify_hours"
    /\ UNCHANGED <<tweets, start_time, end_time, response_text, api_calls,
                   loopVars, pipelineVars, collectorVars, searchVars,
                   sourceVars, clockVars, pollVars>>

ConvertEventTimestamp ==
    /\ pc = "clock"
    /\ result' = sale_timestamp_of(event_timestamp, local_offset)
    /\ pc' = "sale_timestamp"
    /\ UNCHANGED <<tweets, start_time, end_time, response_text, api_calls,
                   loopVars, pipelineVars, collectorVars, searchVars,
                   sourceVars, clockVars, pollVars>>

NextClock ==
    \/ ParseTwitterTimestamp
    \/ TwikitHoursBeforeSale
    \/ ApifyHoursBeforeSale
    \/ ConvertEventTimestamp

SpecClock == InitClock /\ [][NextClock]_vars

\* C25: every timestamp that carries no timezone is read as UTC, never as
\* local time and never as a zone-less value: _parse_twitter_timestamp
\* returns the UTC instant of the string as an aware datetime, both
\* _calculate_hours_before_sale return the distance between the UTC instants
\* of sale and tweet (the Apify one floored at 0), and the sale timestamp
\* made from an integer epoch denotes that epoch when read as UTC.
C25_ZonelessIsUTC ==
    /\ (pc = "parsed" /\ HasInstant(tweet_time)) =>
          /\ result.ok
          /\ result.aware
          /\ result.t = CanonicalInstant(tweet_time)
    /\ (pc = "twikit_hours" /\ HasInstant(tweet_time)
            /\ sale_time.fmt \in {"isoZ", "isoOffset", "isoNaive"}) =>
          result = CanonicalInstant(sale_time) - CanonicalInstant(tweet_time)
    /\ (pc = "apify_hours" /\ HasInstant(tweet_time) /\ HasInstant(sale_time)) =>
          result = Max(0, CanonicalInstant(sale_time) - CanonicalInstant(tweet_time))
    /\ pc = "sale_timestamp" => CanonicalInstant(result) = event_timestamp

\* C26: in collect_nft_data, the step that ends the processing of a sale
\* event which has a successor in its collection takes the fixed delay, and
\* the step that leaves a collection which has a successor takes the longer
\* delay, whether the event or collection succeeded, failed or had no sales.
C26_DelayBetweenEventsAndCollections ==
    [][/\ (/\ Len(attempted') = Len(attempted) + 1
           /\ attempted'[Len(attempted')].phase = "collector"
           /\ attempted'[Len(attempted')].event < attempted'[Len(attempted')].of)
          => delays' = Append(delays, nft_delay_seconds)
       /\ (/\ collection_index' = collection_index + 1
           /\ collection_index < Len(collections))
          => delays' = Append(delays, collection_delay_seconds)]_vars

(***************************************************************************)
(* The wait for a provider run.  Time is counted in seconds; a status      *)
(* answer is a run object of the provider, or the request fails.           *)
(***************************************************************************)
max_wait_time == 300
poll_interval == 10
max_wait_minutes == 10

RunStatuses == {"READY", "RUNNING", "SUCCEEDED", "FAILED", "ABORTED"}

Terminal == {"SUCCEEDED", "FAILED"}

\* The run's default dataset: its items, and whether the request for them
\* is answered.
Datasets == [available : BOOLEAN, items : {<<>>, <<"A">>, <<"A", "B">>}]

\* NFTTwitterScraper._fetch_results (twitter_scraper_apify.py 283-300)
fetch_results(ds) == IF ds.available THEN ds.items ELSE <<>>

\* NFTTwitterScraper.get_results (apify.py 124-134)
get_results(ds) == IF ds.available THEN ds.items ELSE NoneVal

\* the clock stands still
no_sleep(t) == t

\* asyncio.sleep(10), time.sleep(10): the clock after the pause
sleep(t) == t + poll_interval

InitPoll ==
    /\ pc \in {"_wait_for_completion", "wait_for_completion"}
    /\ run_status = NoneVal
    /\ elapsed = 0
    /\ dataset \in Datasets
    /\ tweets = <<>>
    /\ start_time = NoneVal
    /\ end_time = NoneVal
    /\ result = NoneVal
    /\ response_text = NoResponse
    /\ api_calls = 0
    /\ PipelineIdle
    /\ CollectorIdle
    /\ SearchIdle
    /\ SourceIdle
    /\ ClockIdle

\* twitter_scraper_apify.py 256-278, one iteration of the while loop: the
\* status request fails or answers a status; SUCCEEDED and FAILED return,
\* anything else pauses.
PollStatus ==
    /\ pc = "_wait_for_completion"
    /\ elapsed < max_wait_time
    /\ \E failed \in BOOLEAN, status \in RunStatuses :
          IF failed
          THEN /\ elapsed' = sleep(elapsed)
               /\ UNCHANGED <<pc, run_status, result>>
          ELSE /\ run_status' = status
               /\ IF status = "SUCCEEDED"
                  THEN /\ result' = fetch_results(dataset)
                       /\ pc' = "returned"
                       /\ UNCHANGED elapsed
                  ELSE IF status = "FAILED"
                  THEN /\ result' = <<>>
                       /\ pc' = "returned"
                       /\ UNCHANGED elapsed
                  ELSE /\ elapsed' = sleep(elapsed)
                       /\ UNCHANGED <<pc, result>>
    /\ UNCHANGED <<tweets, start_time, end_time, response_text, api_calls,
                   loopVars, pipelineVars, collectorVars, searchVars,
                   sourceVars, clockVars, dataset>>

\* twitter_scraper_apify.py 256, 280-281: the loop condition fails.
Timeout ==
    /\ pc = "_wait_for_completion"
    /\ elapsed >= max_wait_time
    /\ result' = <<>>
    /\ pc' = "returned"
    /\ UNCHANGED <<tweets, start_time, end_time, response_text, api_calls,
                   loopVars, pipelineVars, collectorVars, searchVars,
                   sourceVars, clockVars, pollVars>>

\* apify.py 107-119, one iteration of `for _ in range(max_wait_minutes * 6)`:
\* an answer other than 200 or a status that is not final pauses.
SyncPollStatus ==
    /\ pc = "wait_for_completion"
    /\ elapsed < max_wait_minutes * 6 * poll_interval
    /\ \E failed \in BOOLEAN, status \in RunStatuses :
          IF failed
          THEN /\ elapsed' = sleep(elapsed)
               /\ UNCHANGED <<pc, run_status, result>>
          ELSE /\ run_status' = status
               /\ IF status = "SUCCEEDED"
                  THEN /\ result' = get_results(dataset)
                       /\ pc' = "sync_returned"
                       /\ UNCHANGED elapsed
                  ELSE IF status = "FAILED"
                  THEN /\ result' = NoneVal
                       /\ pc' = "sync_returned"
                       /\ UNCHANGED elapsed
                  ELSE /\ elapsed' = sleep(elapsed)
                       /\ UNCHANGED <<pc, result>>
    /\ UNCHANGED <<tweets, start_time, end_time, response_text, api_calls,
                   loopVars, pipelineVars, collectorVars, searchVars,
                   sourceVars, clockVars, dataset>>

\* apify.py 121-122: the range is used up.
SyncTimeout ==
    /\ pc = "wait_for_completion"
    /\ elapsed >= max_wait_minutes * 6 * poll_interval
    /\ result' = NoneVal
    /\ pc' = "sync_returned"
    /\ UNCHANGED <<tweets, start_time, end_time, response_text, api_calls,
                   loopVars, pipelineVars, collectorVars, searchVars,
                   sourceVars, clockVars, pollVars>>

NextPoll ==
    \/ PollStatus
    \/ Timeout
    \/ SyncPollStatus
    \/ SyncTimeout

SpecPoll == InitPoll /\ [][NextPoll]_vars

\* The event loop resumes the waiting coroutine after every pause, and the
\* blocking loop of apify.py runs on.
SpecPollFair == SpecPoll /\ WF_vars(NextPoll)

Waited == pc \in {"returned", "sync_returned"}

\* The wait ends, nothing happens once SUCCEEDED or FAILED was observed, and
\* _wait_for_completion returns an empty list for FAILED and, for any other
\* status and for polling errors, once the timeout has elapsed.
WaitEndsAndFailureIsEmpty ==
    /\ <>Waited
    /\ [][run_status \notin Terminal]_vars
    /\ [](run_status \in Terminal => Waited)
    /\ [](pc = "returned" =>
            /\ run_status = "FAILED" => result = <<>>
            /\ run_status \notin Terminal =>
                  (result = <<>> /\ elapsed >= max_wait_time))

\* C27 as stated: the wait is a poll-with-timeout state machine that always
\* terminates; _wait_for_completion returns the dataset items once SUCCEEDED
\* is observed, an empty list once FAILED is observed or the timeout has
\* elapsed, and no status poll follows an observed SUCCEEDED or FAILED.
C27_SucceededReturnsItems ==
    /\ WaitEndsAndFailureIsEmpty
    /\ [](pc = "returned" /\ run_status = "SUCCEEDED" => result = dataset.items)

\* C27, amended: as above, but once SUCCEEDED is observed the result is what
\* _fetch_results returns: the dataset items, or an empty list when the
\* request for the items fails.
C27_SucceededReturnsFetched ==
    /\ WaitEndsAndFailureIsEmpty
    /\ [](pc = "returned" /\ run_status = "SUCCEEDED" =>
            result = IF dataset.available THEN dataset.items ELSE <<>>)

\* C27 witness: after at least one pause SUCCEEDED was observed and the
\* items of the dataset were returned.
C27_Witness ==
    /\ pc = "returned"
    /\ run_status = "SUCCEEDED"
    /\ elapsed >= poll_interval
    /\ dataset.items # <<>>
    /\ result = dataset.items

\* The iterations of the loop over sales[:sales_per_collection] that ended
\* without raising, in the order they were made.
Processed == SelectSeq(attempted, LAMBDA x : x.phase = "collector" /\ ~x.raised)

\* C28: whatever events one NFTDataCollector has processed within
\* collect_nft_data, len(collected_data) = len(metadata_data) =
\* processed_nfts <= total_nfts, each event processed without error has
\* contributed exactly one record, in order, a failed event none, and no
\* event of a collection is processed twice.
C28_CountersMatchRecords ==
    /\ Len(collector.collected_data) = Len(collector.metadata_data)
    /\ Len(collector.collected_data) = collector.processed_nfts
    /\ collector.processed_nfts <= collector.total_nfts
    /\ Len(collector.collected_data) = Len(Processed)
    /\ \A k \in 1..Len(Processed) :
          /\ collector.collected_data[k][1] = Processed[k].collection
          /\ collector.metadata_data[k] = collector.collected_data[k]
    /\ \A x, y \in 1..Len(attempted) :
          (/\ attempted[x].phase = "collector"
           /\ attempted[y].phase = "collector"
           /\ attempted[x].collection = attempted[y].collection
           /\ attempted[x].event = attempted[y].event) => x = y

\* C28 witness: the run is over, one event of it failed, two were processed
\* and stored, and fewer records were stored than the run aimed at.
C28_Witness ==
    /\ pc = "saved"
    /\ \E x \in 1..Len(attempted) :
          attempted[x].phase = "collector" /\ attempted[x].raised
    /\ collector.processed_nfts >= 2
    /\ collector.processed_nfts < collector.total_nfts

\* The fields of a sale that are not sentiment fields.
OwnFields(sale) == DOMAIN sale \ DOMAIN ZeroSentimentFields

\* The records _merge_sentiment_data returned for a non-empty
\* sentiment_results: one per sale, in the order of the sales.
MergedOnePerSale ==
    (pc = "done" /\ DOMAIN sale_sentiment_results # {}) =>
        /\ Len(enhanced_sales) = Len(nft_sales)
        /\ \A i \in 1..Len(nft_sales) :
              LET sale == nft_sales[i]
                  sale_key == sale_key_of_sale(sale)
              IN  /\ DOMAIN enhanced_sales[i] = DOMAIN sale \cup DOMAIN ZeroSentimentFields
                  /\ \A k \in OwnFields(sale) : enhanced_sales[i][k] = sale[k]
                  /\ merged_fields(enhanced_sales[i]) =
                        IF sale_key \in DOMAIN sale_sentiment_results
                        THEN merged_fields(sale_sentiment_results[sale_key])
                        ELSE ZeroSentimentFields

\* C29: given a non-empty sentiment_results, _merge_sentiment_data returns
\* exactly one record per input sale in input order; each record keeps the
\* sale's own fields and carries the sentiment fields of the entry with the
\* sale's key, or explicit zeros when there is none; the step leaves the
\* sales and sentiment_results as they were.
C29_MergeKeepsSalesAndOrder ==
    /\ []MergedOnePerSale
    /\ [][pc' = "done" =>
            /\ nft_sales' = nft_sales
            /\ sale_sentiment_results' = sale_sentiment_results]_vars

\* C29 witness: two sales were merged, one with the entry of its key, which
\* counts posts, and one without an entry, which got the zeros.
C29_Witness ==
    /\ pc = "done"
    /\ Len(nft_sales) = 2
    /\ \E i, j \in 1..2 :
          /\ sale_key_of_sale(nft_sales[i]) \in DOMAIN sale_sentiment_results
          /\ enhanced_sales[i].tweet_count > 0
          /\ sale_key_of_sale(nft_sales[j]) \notin DOMAIN sale_sentiment_results
          /\ merged_fields(enhanced_sales[j]) = ZeroSentimentFields

\* r is a subsequence of s.
RECURSIVE IsSubsequence(_, _)
IsSubsequence(r, s) ==
    IF r = <<>> THEN TRUE
    ELSE IF s = <<>> THEN FALSE
    ELSE IF Head(r) = Head(s) THEN IsSubsequence(Tail(r), Tail(s))
    ELSE IsSubsequence(r, Tail(s))

\* The post passes every filter of _filter_relevant_tweets other than the
\* one on its author, with a text of at least min_len characters.
PassesOtherFilters(tweet, long_enough) ==
    /\ tweet.author_id # ""
    /\ long_enough
    /\ tweet.text.words \cap exclude_patterns = {}
    /\ tweet.text.words \cap nft_sentiment_keywords # {}

\* The first post of each author for which pass holds, in input order.
FirstPassing(s, pass(_)) ==
    SelectSeq([i \in 1..Len(s) |-> [i |-> i, tweet |-> s[i]]],
              LAMBDA x : /\ pass(x.tweet)
                         /\ \A j \in 1..(x.i - 1) :
                               s[j].author_id = x.tweet.author_id => ~pass(s[j]))

PassesByText(tweet) == PassesOtherFilters(tweet, tweet.text.len >= MinTextLen)

PassesByLoweredText(tweet) ==
    PassesOtherFilters(tweet, tweet.text.lower_len >= MinTextLen)

\* C30: _filter_relevant_tweets returns a subsequence of its input without
\* any post that has no author id or a text of fewer than 20 characters, and
\* with one post per author id: the first post of the author that passes
\* all other filters, whether or not an earlier post of the author was
\* rejected.
C30_FirstPassingPostPerAuthor ==
    LET relevant_tweets == filter_relevant_tweets(tweets)
        first == FirstPassing(tweets, PassesByText)
    IN  pc = "analyzed" =>
            /\ IsSubsequence(relevant_tweets, tweets)
            /\ \A i \in 1..Len(relevant_tweets) :
                  /\ relevant_tweets[i].author_id # ""
                  /\ relevant_tweets[i].text.len >= MinTextLen
            /\ relevant_tweets = [i \in 1..Len(first) |-> first[i].tweet]


====
